---------------------------- MODULE Spec2Model ----------------------------
(***************************************************************************)
(* Model of AIShow: the Graph Store and Execution Scheduler (class AIModel, *)
(* src/src/AIModel.h and src/src/AIModel.cpp), the Interaction Store       *)
(* (class NodeEditor, src/src/NodeEditor.cpp) and the Bridge (class        *)
(* SyncManager, src/src/SyncManager.cpp).                                  *)
(*                                                                         *)
(* The specifications share the variables:                                 *)
(*   Spec       the scheduler: StartExecution / StopExecution on the main  *)
(*              thread, the worker threads of ExecutionLoop, and the store *)
(*              edits the main thread makes between runs;                  *)
(*   SpecStore  the Graph Store operations alone, from the empty store;    *)
(*   SpecRemoval  one run of the scheduler with a RemoveNode by the main   *)
(*              thread while the workers run;                              *)
(*   SpecSync   the Interaction Store, the Graph Store and the Bridge on   *)
(*              the main thread; FairSync adds the fairness of the pass;   *)
(*   SpecEditor the same three objects with the Interaction Store's        *)
(*              public operations called with arbitrary ids;               *)
(*   SpecRun    the runs of Spec without store edits; FairRun adds the     *)
(*              fairness of the worker threads.                            *)
(*                                                                         *)
(* Fields of the C++ records that no modelled branch reads are left out:   *)
(* Port.name, Edge.dataType and Edge.metadata.                             *)
(***************************************************************************)
EXTENDS Integers, Sequences, FiniteSets, TLC

(***************************************************************************)
(* Bounds of the model.                                                    *)
(***************************************************************************)
\* Scheduler runs are checked on graphs of at most MaxNodes nodes ...
MaxNodes == 3
\* ... and at most MaxEdges edges,
MaxEdges == 2
\* with at most MaxThreads worker threads per run,
MaxThreads == 2
\* at most MaxRuns runs built by StartExecution in one behaviour,
MaxRuns == 2
\* and at most MaxEdits store edits by the main thread between runs.
MaxEdits == 1
\* SpecStore: at most StoreMaxNodes nodes and StoreMaxEdges edges are held,
StoreMaxNodes == 2
StoreMaxEdges == 2
\* and the port / edge counters advance at most this far past their start.
MaxPortAlloc == 4
MaxEdgeAlloc == 3
\* SpecEditor: at most MaxEditorSteps calls other than passes are made and
\* at most MaxPendingConnections link requests are pending.
MaxEditorSteps == 5
MaxPendingConnections == 2
\* SpecRemoval: at most MaxRacyReads reads of nodes_ by the workers overlap
\* one erase of RemoveNode.
MaxRacyReads == 1

(***************************************************************************)
(* Program constants.                                                      *)
(***************************************************************************)
FirstPortId == 1000
FirstEdgeId == 2000
Conv2DSteps == 10
MaxPoolSteps == 5
GenericSteps == 8

VARIABLES
    \* ---- Graph Store (AIModel.h:108-113, 132-133)
    nodes,          \* nodes_      : sequence of AINode records
    edges,          \* edges_      : sequence of Edge records
    allPorts,       \* allPorts_   : sequence of Port records
    portIndex,      \* portIndex_  : port id -> index into allPorts (1-based here)
    nextPortId,     \* nextPortId_
    nextEdgeId,     \* nextEdgeId_
    onModelChange,  \* onModelChange_ is non-null
    \* ---- Execution Scheduler (AIModel.h:116-129)
    executing,      \* executing_
    workerThreads,  \* workerThreads_ : the worker threads held (not yet cleared)
    readyQueue,     \* readyQueue_
    adjacency,      \* adjacency_ : node id -> sequence of successors
    indegree,       \* indegree_  : node id -> remaining incoming edges
    remainingNodes, \* remainingNodes_
    numThreads,     \* numThreads_
    mutexHolder,    \* owner of queueMutex_ (0: free)
    \* ---- threads
    mainPc,         \* where the main thread is inside Start/StopExecution
    startArg,       \* the numThreads argument of the StartExecution in progress
    wpc,            \* worker -> position in ExecutionLoop
    wnode,          \* worker -> its local nodeId (-1: none)
    wstep,          \* worker -> loop counter i of ExecuteNode
    wtype,          \* worker -> the node type ExecuteNode branched on
    racyReads,      \* reads of nodes_ by workers that overlapped the erase under way
    \* ---- observation (history) variables
    events,         \* node id -> the progress events delivered for it in this run
    lastCall,       \* the public operation the main thread called last
    notifyCount,    \* times onModelChange_ was invoked by the last store operation
    runNo,          \* runs built by StartExecution so far
    runStopped,     \* StopExecution has set executing_ = false in this run
    prevCompleted,  \* nodes the previous run had completed when this run was built
    outsideRead,    \* a port list was indexed outside its bounds (undefined behaviour)
    edits,          \* store edits made in Spec / operations called in SpecSync so far
    \* ---- Interaction Store (NodeEditor.h:238-261)
    editorNodes,    \* NodeEditor::nodes_ : sequence of UINode records, sorted by id
    links,          \* NodeEditor::links_ : sequence of Link records, sorted by id
    current_id,     \* current_id_
    pendingOps,     \* pendingOps_ : sequence of DeferredNodeOp records
    pendingConnections, \* pendingConnections_ : sequence of PendingConnection records
    onNodeChange,   \* onNodeChange_ is non-null
    \* ---- Bridge (SyncManager.h)
    editorChanged,  \* editorChanged_
    modelChanged,   \* modelChanged_
    prevCall        \* SpecSync: the operation the main thread called before lastCall

storeVars == <<nodes, edges, allPorts, portIndex, nextPortId, nextEdgeId>>
schedVars == <<executing, workerThreads, readyQueue, adjacency, indegree,
               remainingNodes, numThreads, mutexHolder>>
threadVars == <<mainPc, startArg, wpc, wnode, wstep, wtype, racyReads>>
editorVars == <<editorNodes, links, current_id, pendingOps, pendingConnections, onNodeChange>>
bridgeVars == <<editorChanged, modelChanged, prevCall>>
vars == <<nodes, edges, allPorts, portIndex, nextPortId, nextEdgeId, onModelChange,
          executing, workerThreads, readyQueue, adjacency, indegree, remainingNodes,
          numThreads, mutexHolder, mainPc, startArg, wpc, wnode, wstep, wtype, racyReads,
          events, lastCall, notifyCount, runNo, runStopped, prevCompleted, outsideRead, edits,
          editorNodes, links, current_id, pendingOps, pendingConnections, onNodeChange,
          editorChanged, modelChanged, prevCall>>

(***************************************************************************)
(* Helpers on sequences and functions.                                     *)
(***************************************************************************)
Range(s) == {s[i] : i \in DOMAIN s}

RECURSIVE SelectWhere(_, _)
\* s without the elements i for which drop[i] holds (std::remove_if + erase).
SelectWhere(s, drop) ==
    IF s = <<>> THEN <<>>
    ELSE LET rest == SelectWhere(Tail(s), [i \in 1..(Len(s) - 1) |-> drop[i + 1]])
         IN IF drop[1] THEN rest ELSE <<Head(s)>> \o rest

\* f with key k set to v (operator[] assignment on a map).
MapPut(f, k, v) == [x \in (DOMAIN f) \cup {k} |-> IF x = k THEN v ELSE f[x]]

EmptyMap == [x \in {} |-> 0]

(***************************************************************************)
(* Graph Store: records.                                                   *)
(***************************************************************************)
Port(id, dataType, isInput, nodeId) ==
    [id |-> id, dataType |-> dataType, isInput |-> isInput, nodeId |-> nodeId]

\* parameters: the key / value pairs, a value being its characters in order.
\* boundUINodeId is -1 where the program builds a node outside the Bridge
\* (ai_execution_test.cpp:11-13, AIModel.cpp:68).
AINode(id, type, ins, outs) ==
    [id |-> id, type |-> type, name |-> "", inputPorts |-> ins, outputPorts |-> outs,
     parameters |-> <<>>, boundUINodeId |-> -1]

WithName(node, name) == [node EXCEPT !.name = name]

WithParameters(node, ps) == [node EXCEPT !.parameters = ps]

\* modelNode.boundUINodeId = editorNode.id; (SyncManager.cpp:64)
PushBinding(editorNodeId) == editorNodeId

WithBoundUINodeId(node, id) == [node EXCEPT !.boundUINodeId = id]

Edge(id, from, to) == [id |-> id, fromPortId |-> from, toPortId |-> to]

\* The store as one value, so that the operations are functions on it.
Store == [nodes |-> nodes, edges |-> edges, allPorts |-> allPorts,
          portIndex |-> portIndex, nextPortId |-> nextPortId,
          nextEdgeId |-> nextEdgeId]

EmptyStore == [nodes |-> <<>>, edges |-> <<>>, allPorts |-> <<>>,
               portIndex |-> EmptyMap, nextPortId |-> FirstPortId,
               nextEdgeId |-> FirstEdgeId]

SetStore(S) ==
    /\ nodes' = S.nodes
    /\ edges' = S.edges
    /\ allPorts' = S.allPorts
    /\ portIndex' = S.portIndex
    /\ nextPortId' = S.nextPortId
    /\ nextEdgeId' = S.nextEdgeId

(***************************************************************************)
(* Graph Store: port lookup.                                               *)
(***************************************************************************)
\* GetPort(portId) != nullptr
HasPort(S, portId) ==
    /\ portId \in DOMAIN S.portIndex
    /\ S.portIndex[portId] >= 1
    /\ S.portIndex[portId] <= Len(S.allPorts)

\* *GetPort(portId), where HasPort
GetPort(S, portId) == S.allPorts[S.portIndex[portId]]

\* allPorts_.push_back(port); portIndex_[port.id] = allPorts_.size() - 1
RegisterPort(S, port) ==
    [S EXCEPT !.allPorts = Append(S.allPorts, port),
              !.portIndex = MapPut(S.portIndex, port.id, Len(S.allPorts) + 1)]

(***************************************************************************)
(* Graph Store: operations (as functions from store to store).             *)
(***************************************************************************)
RECURSIVE RegisterExisting(_, _, _, _)
\* AddNode's "register existing ports" loop (AIModel.cpp:206-211, 226-231):
\* a port with id <= 0 gets a fresh id, every port gets nodeId = the node's
\* id and is pushed onto allPorts_ and indexed.  The isInput flag is left
\* as supplied.  Returns the store and the ports as stored in the node.
RegisterExisting(S, ports, nodeId, done) ==
    IF ports = <<>> THEN [store |-> S, ports |-> done]
    ELSE LET p0 == Head(ports)
             fresh == p0.id <= 0
             p == [p0 EXCEPT !.id = IF fresh THEN S.nextPortId ELSE p0.id,
                             !.nodeId = nodeId]
             S1 == IF fresh THEN [S EXCEPT !.nextPortId = S.nextPortId + 1] ELSE S
         IN RegisterExisting(RegisterPort(S1, p), Tail(ports), nodeId, Append(done, p))

\* One half of AddNode: the input ports (isInput = TRUE) or the output ports.
AddNodePorts(S, ports, nodeId, isInput) ==
    IF ports = <<>>
    THEN LET p == Port(S.nextPortId, "any", isInput, nodeId)
         IN [store |-> RegisterPort([S EXCEPT !.nextPortId = S.nextPortId + 1], p),
             ports |-> <<p>>]
    ELSE RegisterExisting(S, ports, nodeId, <<>>)

\* AIModel::AddNode, without the notification.
AddNodeOp(S, node) ==
    LET ins == AddNodePorts(S, node.inputPorts, node.id, TRUE)
        outs == AddNodePorts(ins.store, node.outputPorts, node.id, FALSE)
        newNode == [node EXCEPT !.inputPorts = ins.ports, !.outputPorts = outs.ports]
    IN [outs.store EXCEPT !.nodes = Append(outs.store.nodes, newNode)]

\* EdgeTouches looking at the source port only.
EdgeTouches_SourceOnly(S, e, nodeId) ==
    HasPort(S, e.fromPortId) /\ GetPort(S, e.fromPortId).nodeId = nodeId

\* The edge touches a port owned by nodeId (the predicate of RemoveNode's remove_if).
EdgeTouches(S, e, nodeId) ==
    \/ HasPort(S, e.fromPortId) /\ GetPort(S, e.fromPortId).nodeId = nodeId
    \/ HasPort(S, e.toPortId) /\ GetPort(S, e.toPortId).nodeId = nodeId

RECURSIVE RebuildIndex(_, _, _)
\* portIndex_.clear(); for i: portIndex_[allPorts_[i].id] = i
RebuildIndex(ports, i, idx) ==
    IF i > Len(ports) THEN idx
    ELSE RebuildIndex(ports, i + 1, MapPut(idx, ports[i].id, i))

\* AIModel::RemoveNode, without the notification.
RemoveNodeOp(S, nodeId) ==
    LET es == SelectWhere(S.edges, [i \in DOMAIN S.edges |-> EdgeTouches(S, S.edges[i], nodeId)])
        ps == SelectWhere(S.allPorts, [i \in DOMAIN S.allPorts |-> S.allPorts[i].nodeId = nodeId])
        ns == SelectWhere(S.nodes, [i \in DOMAIN S.nodes |-> S.nodes[i].id = nodeId])
    IN [S EXCEPT !.edges = es, !.allPorts = ps,
                 !.portIndex = RebuildIndex(ps, 1, EmptyMap), !.nodes = ns]

\* AIModel::UpdateNode, without the notification: the first node with the id
\* is replaced by the supplied record; allPorts_ is not touched.
UpdateNodeOp(S, node) ==
    LET hits == {i \in DOMAIN S.nodes : S.nodes[i].id = node.id}
    IN IF hits = {} THEN S
       ELSE LET first == CHOOSE i \in hits : \A j \in hits : i <= j
            IN [S EXCEPT !.nodes[first] = node]

\* ValidateEdge with the same-node check left out.
ValidateEdge_NoSameNodeCheck(S, e) ==
    /\ HasPort(S, e.fromPortId) /\ HasPort(S, e.toPortId)
    /\ LET fromPort == GetPort(S, e.fromPortId)
           toPort == GetPort(S, e.toPortId)
       IN /\ ~(fromPort.isInput \/ ~toPort.isInput)
          /\ ~(/\ fromPort.dataType # "any" /\ toPort.dataType # "any"
               /\ fromPort.dataType # toPort.dataType)

\* AIModel::ValidateEdge
ValidateEdge(S, e) ==
    /\ HasPort(S, e.fromPortId) /\ HasPort(S, e.toPortId)
    /\ LET fromPort == GetPort(S, e.fromPortId)
           toPort == GetPort(S, e.toPortId)
       IN /\ ~(fromPort.isInput \/ ~toPort.isInput)
          /\ ~(fromPort.nodeId = toPort.nodeId)
          /\ ~(/\ fromPort.dataType # "any" /\ toPort.dataType # "any"
               /\ fromPort.dataType # toPort.dataType)

\* AIModel::AddEdge past its validation, without the notification.
AddEdgeOp(S, e) ==
    IF e.id <= 0
    THEN [S EXCEPT !.edges = Append(S.edges, [e EXCEPT !.id = S.nextEdgeId]),
                   !.nextEdgeId = S.nextEdgeId + 1]
    ELSE [S EXCEPT !.edges = Append(S.edges, e)]

\* AIModel::RemoveEdge, without the notification.
RemoveEdgeOp(S, edgeId) ==
    [S EXCEPT !.edges = SelectWhere(S.edges, [i \in DOMAIN S.edges |-> S.edges[i].id = edgeId])]

\* AIModel::RemoveEdgesBetweenNodes, without the notification.
RemoveEdgesBetweenNodesOp(S, fromNodeId, toNodeId) ==
    [S EXCEPT !.edges = SelectWhere(S.edges,
        [i \in DOMAIN S.edges |->
            /\ HasPort(S, S.edges[i].fromPortId)
            /\ GetPort(S, S.edges[i].fromPortId).nodeId = fromNodeId
            /\ HasPort(S, S.edges[i].toPortId)
            /\ GetPort(S, S.edges[i].toPortId).nodeId = toNodeId])]

\* The index of the last node with the id, 0 if none: the loops of
\* AddConnection and LoadFromFile overwrite the pointer and do not break.
FindNodeLast(S, nodeId) ==
    LET hits == {i \in DOMAIN S.nodes : S.nodes[i].id = nodeId}
    IN IF hits = {} THEN 0 ELSE CHOOSE i \in hits : \A j \in hits : j <= i

\* AddConnection reaches its AddEdge call: both nodes found and neither
\* index >= the size of the port list (AIModel.cpp:414-416).  A negative
\* index passes these checks.
ConnectionResolves(S, fromNode, toNode, fromOutput, toInput) ==
    /\ FindNodeLast(S, fromNode) # 0
    /\ FindNodeLast(S, toNode) # 0
    /\ ~(fromOutput >= Len(S.nodes[FindNodeLast(S, fromNode)].outputPorts))
    /\ ~(toInput >= Len(S.nodes[FindNodeLast(S, toNode)].inputPorts))

\* AddConnection indexes a port list outside its bounds.
ReadsOutside(S, fromNode, toNode, fromOutput, toInput) ==
    /\ ConnectionResolves(S, fromNode, toNode, fromOutput, toInput)
    /\ (fromOutput < 0 \/ toInput < 0)

\* What ports[index].id can yield (0-based index of the code): the id of
\* the port, or, for an index outside the vector, whatever the memory
\* there holds: the id of some port held, or a value naming no port (0).
PortIdReads(S, ports, index) ==
    IF index >= 0 THEN {ports[index + 1].id}
    ELSE {S.allPorts[i].id : i \in DOMAIN S.allPorts} \cup {0}

\* The edges AddConnection may hand to AddEdge; the id was taken from
\* GetNextEdgeId() before the call.
ConnectionEdges(S, fromNode, toNode, fromOutput, toInput) ==
    {Edge(S.nextEdgeId, from, to) :
        from \in PortIdReads(S, S.nodes[FindNodeLast(S, fromNode)].outputPorts, fromOutput),
        to \in PortIdReads(S, S.nodes[FindNodeLast(S, toNode)].inputPorts, toInput)}

\* AIModel::AddConnection from GetNextEdgeId() on, for the edge e it built,
\* without the notification AddEdge makes.
AddConnectionOp(S, e) ==
    LET S1 == [S EXCEPT !.nextEdgeId = S.nextEdgeId + 1]
    IN IF ValidateEdge(S1, e) THEN AddEdgeOp(S1, e) ELSE S1

(***************************************************************************)
(* Graph Store: LoadFromFile.  A file is modelled by what its lines parse  *)
(* to: whether it opens, the node lines (id, type) of its "Nodes:" section *)
(* and the connection lines (fromNodeId, toNodeId, fromPortIdx, toPortIdx) *)
(* of its "Connections:" section, which follows the nodes.                 *)
(***************************************************************************)
ModelFile(open, nodeLines, connLines) ==
    [open |-> open, nodeLines |-> nodeLines, connLines |-> connLines]

\* One node line (AIModel.cpp:53-92): a node with one default input and one
\* default output port.
LoadNodeLine(S, line) ==
    LET inP == Port(S.nextPortId, "any", TRUE, line.id)
        outP == Port(S.nextPortId + 1, "any", FALSE, line.id)
        S1 == RegisterPort([S EXCEPT !.nextPortId = S.nextPortId + 1], inP)
        S2 == RegisterPort([S1 EXCEPT !.nextPortId = S1.nextPortId + 1], outP)
    IN [S2 EXCEPT !.nodes = Append(S2.nodes, AINode(line.id, line.type, <<inP>>, <<outP>>))]

\* One connection line (AIModel.cpp:93-132).  The index tests compare an int
\* with a size_t, so a negative index converts to a huge value and fails.
\* The edge is pushed without ValidateEdge.
LoadConnLine(S, c) ==
    LET f == FindNodeLast(S, c[1])
        t == FindNodeLast(S, c[2])
    IN IF f = 0 \/ t = 0 THEN S
       ELSE IF /\ c[3] >= 0 /\ c[3] < Len(S.nodes[f].outputPorts)
               /\ c[4] >= 0 /\ c[4] < Len(S.nodes[t].inputPorts)
            THEN [S EXCEPT !.edges = Append(S.edges,
                                Edge(S.nextEdgeId,
                                     S.nodes[f].outputPorts[c[3] + 1].id,
                                     S.nodes[t].inputPorts[c[4] + 1].id)),
                           !.nextEdgeId = S.nextEdgeId + 1]
            ELSE S

RECURSIVE LoadNodeLines(_, _)
LoadNodeLines(S, lines) ==
    IF lines = <<>> THEN S
    ELSE LoadNodeLines(LoadNodeLine(S, Head(lines)), Tail(lines))

RECURSIVE LoadConnLines(_, _)
LoadConnLines(S, lines) ==
    IF lines = <<>> THEN S
    ELSE LoadConnLines(LoadConnLine(S, Head(lines)), Tail(lines))

\* AIModel::LoadFromFile on a file that opened, without the notification.
LoadFromFileOp(file) ==
    LoadConnLines(LoadNodeLines(EmptyStore, file.nodeLines), file.connLines)

(***************************************************************************)
(* Execution Scheduler: the dependency graph StartExecution builds.        *)
(***************************************************************************)
\* indegree_[node.id] = 0 for every node (AIModel.cpp:451-453)
ZeroIndegree(S) == [k \in {S.nodes[i].id : i \in DOMAIN S.nodes} |-> 0]

\* An edge leaving its destination's indegree as it was.
IndegreeAfterEdge_Unchanged(count) == count

\* indegree_[to]++; (AIModel.cpp:468)
IndegreeAfterEdge(count) == count + 1

RECURSIVE BuildGraph(_, _, _, _)
\* The loop over edges_ (AIModel.cpp:456-469), from edge i on: an edge whose
\* two ports resolve adds its destination node to the source node's
\* successor list and increments the destination's indegree.
BuildGraph(S, i, adj, ind) ==
    IF i > Len(S.edges) THEN [adjacency |-> adj, indegree |-> ind]
    ELSE LET e == S.edges[i]
         IN IF HasPort(S, e.fromPortId) /\ HasPort(S, e.toPortId)
            THEN LET from == GetPort(S, e.fromPortId).nodeId
                     to == GetPort(S, e.toPortId).nodeId
                     adj1 == MapPut(adj, from,
                                    Append(IF from \in DOMAIN adj THEN adj[from] ELSE <<>>, to))
                     ind1 == IF to \in DOMAIN ind THEN ind ELSE MapPut(ind, to, 0)
                     ind2 == IF from \in DOMAIN ind1 THEN ind1 ELSE MapPut(ind1, from, 0)
                 IN BuildGraph(S, i + 1, adj1, MapPut(ind2, to, IndegreeAfterEdge(ind2[to])))
            ELSE BuildGraph(S, i + 1, adj, ind)

\* Seeding the ready queue with every node, whatever its indegree.
ReadySet_All(ind) == DOMAIN ind

\* The node ids pushed onto the ready queue at the start of a run
\* (AIModel.cpp:475-477): those with indegree 0.
ReadySet(ind) == {k \in DOMAIN ind : ind[k] = 0}

\* The orders in which a set can be pushed: indegree_ is an unordered_map,
\* whose iteration order the program does not control.
Orders(set) ==
    {q \in [1..Cardinality(set) -> set] : \A i, j \in DOMAIN q : i # j => q[i] # q[j]}

\* Leaving the remaining-node counter as the previous run left it.
InitialRemaining_Stale(S) == remainingNodes

\* remainingNodes_.store(nodes_.size()) (AIModel.cpp:490)
InitialRemaining(S) == Len(S.nodes)

(***************************************************************************)
(* Execution Scheduler: simulated node execution and its progress values.  *)
(* A float is held exactly, as its numerator over 2^27.                    *)
(***************************************************************************)
FloatDenominator == 2^27

\* The float literals 0.1f, 0.2f and 0.125f (AIModel.cpp:599, 605, 611).
Float_0_1 == 13421773
Float_0_2 == 26843546
Float_0_125 == 2^24

RECURSIVE ExcessBits(_)
\* How many low bits of m a 24-bit significand cannot hold.
ExcessBits(m) == IF m < 2^24 THEN 0 ELSE 1 + ExcessBits(m \div 2)

\* The exact product taken as the float, with no rounding.
RoundToFloat_Exact(m) == m

\* Round-to-nearest-even of the exact value m / 2^27 to a float.
RoundToFloat(m) ==
    LET e == ExcessBits(m)
        q == m \div (2^e)
        r == m % (2^e)
        up == (2 * r > 2^e) \/ (2 * r = 2^e /\ q % 2 = 1)
    IN (IF up THEN q + 1 ELSE q) * (2^e)

\* The number of timed steps of a node type (AIModel.cpp:595-613).
StepsOf(type) ==
    IF type = "Conv2D" THEN Conv2DSteps
    ELSE IF type = "MaxPool" THEN MaxPoolSteps ELSE GenericSteps

\* The progress value of step i: i * 0.1f, i * 0.2f or i * 0.125f in float.
StepProgress(type, i) ==
    RoundToFloat(i * (IF type = "Conv2D" THEN Float_0_1
                      ELSE IF type = "MaxPool" THEN Float_0_2 ELSE Float_0_125))

\* The events delivered so far for a node in this run.
EventsOf(n) == IF n \in DOMAIN events THEN events[n] ELSE <<>>

\* How many "completed" events were delivered for node n in this run.
CompletedCount(n) ==
    Cardinality({i \in DOMAIN EventsOf(n) : EventsOf(n)[i][2] = "completed"})

RECURSIVE SumCompleted(_)
SumCompleted(ns) ==
    IF ns = {} THEN 0
    ELSE LET n == CHOOSE x \in ns : TRUE IN CompletedCount(n) + SumCompleted(ns \ {n})

\* How many "completed" events were delivered in this run.
CompletedTotal == SumCompleted(DOMAIN events)

\* The index of the first node with the id, 0 if none (std::find_if).
FindNode(S, nodeId) ==
    LET hits == {i \in DOMAIN S.nodes : S.nodes[i].id = nodeId}
    IN IF hits = {} THEN 0 ELSE CHOOSE i \in hits : \A j \in hits : i <= j

\* The main thread is inside the erase of a RemoveNode it called while
\* worker threads exist.  RemoveNode takes no lock and the workers read
\* nodes_ without one: a read at this point is a data race.
Racing == mainPc = "remove"

\* ReportProgress naming every event of a node after the node.
NodeName_Fixed(S, nodeId) == "Node"

\* The name ReportProgress resolves: "Unknown", or the name of the first
\* node with the id (AIModel.cpp:622-627).
NodeName(S, nodeId) ==
    IF FindNode(S, nodeId) = 0 THEN "Unknown" ELSE S.nodes[FindNode(S, nodeId)].name

\* What the lookup of ReportProgress can yield.  While nodes_ is being
\* erased from, the scan runs over elements that are being moved: it can
\* miss the node, land on an element that holds another node's name, or
\* read a string that was moved from.
NameReads(S, nodeId) ==
    IF Racing
    THEN {"Unknown", ""} \cup {S.nodes[i].name : i \in DOMAIN S.nodes}
    ELSE {NodeName(S, nodeId)}

\* What the find_if of ExecuteNode can yield: the index of the first node
\* with the id (0: none), or, while nodes_ is being erased from, any
\* element or none.
FindReads(S, nodeId) ==
    IF Racing THEN {0} \cup DOMAIN S.nodes ELSE {FindNode(S, nodeId)}

\* AIModel::ReportProgress with a progress callback installed (as the test
\* and main do before any run): one event <<progress, status, nodeName>>
\* delivered.
ReportProgress(nodeId, progress, status) ==
    \E name \in NameReads(Store, nodeId) :
        events' = MapPut(events, nodeId, Append(EventsOf(nodeId), <<progress, status, name>>))

(***************************************************************************)
(* Worker threads: AIModel::ExecutionLoop and AIModel::ExecuteNode.        *)
(*                                                                         *)
(* Positions of a worker (wpc):                                            *)
(*   "none"      no such thread                                            *)
(*   "loop"      at the test of while (executing_)                         *)
(*   "lock"      acquiring queueMutex_ (on entry to the block, or inside   *)
(*               wait after a wake-up); the wait predicate is evaluated as *)
(*               soon as the mutex is held                                 *)
(*   "toblock"   holds the mutex, has found the predicate false and is     *)
(*               about to release the mutex and block inside wait          *)
(*   "blocked"   blocked on queueCondition_, mutex released                *)
(*   "afterwait" wait has returned, mutex held                             *)
(*   "exec"      entering ExecuteNode(nodeId)                              *)
(*   "step"      inside ExecuteNode after the start event, wstep steps done*)
(*   "finish"    ExecuteNode returned, acquiring the mutex for bookkeeping *)
(*   "done"      the thread function has returned                          *)
(***************************************************************************)
Workers == 1..MaxThreads

Min(a, b) == IF a < b THEN a ELSE b

Blocked == {x \in Workers : wpc[x] = "blocked"}

\* notify_all: every blocked worker leaves the wait and goes for the mutex.
WakeAll(pc) == [x \in Workers |-> IF pc[x] = "blocked" THEN "lock" ELSE pc[x]]

\* the workers in set S leave the wait
Wake(pc, S) == [x \in Workers |-> IF x \in S THEN "lock" ELSE pc[x]]

\* while (executing_)
WLoop(w) ==
    /\ wpc[w] = "loop"
    /\ wpc' = [wpc EXCEPT ![w] = IF executing THEN "lock" ELSE "done"]
    /\ UNCHANGED <<storeVars, onModelChange, schedVars, mainPc, startArg, wnode, wstep, wtype, racyReads,
                   events, lastCall, notifyCount, runNo, runStopped, prevCompleted, outsideRead, edits, editorVars, bridgeVars>>

\* The mutex is acquired and the wait predicate evaluated
\* (AIModel.cpp:539-542): !executing_ || !readyQueue_.empty()
WLockPred(w) ==
    /\ wpc[w] = "lock"
    /\ mutexHolder = 0
    /\ mutexHolder' = w
    /\ wpc' = [wpc EXCEPT ![w] = IF ~executing \/ readyQueue # <<>>
                                 THEN "afterwait" ELSE "toblock"]
    /\ UNCHANGED <<storeVars, onModelChange, executing, workerThreads, readyQueue,
                   adjacency, indegree, remainingNodes, numThreads, mainPc, startArg,
                   wnode, wstep, wtype, racyReads, events, lastCall, notifyCount, runNo, runStopped, prevCompleted, outsideRead, edits, editorVars, bridgeVars>>

\* condition_variable::wait releases the mutex and blocks, atomically with
\* respect to threads that hold the mutex when they notify.
WBlock(w) ==
    /\ wpc[w] = "toblock"
    /\ mutexHolder = w
    /\ mutexHolder' = 0
    /\ wpc' = [wpc EXCEPT ![w] = "blocked"]
    /\ UNCHANGED <<storeVars, onModelChange, executing, workerThreads, readyQueue,
                   adjacency, indegree, remainingNodes, numThreads, mainPc, startArg,
                   wnode, wstep, wtype, racyReads, events, lastCall, notifyCount, runNo, runStopped, prevCompleted, outsideRead, edits, editorVars, bridgeVars>>

\* A spurious wake-up, which condition_variable::wait permits and never
\* promises.
WSpuriousWake(w) ==
    /\ wpc[w] = "blocked"
    /\ wpc' = [wpc EXCEPT ![w] = "lock"]
    /\ UNCHANGED <<storeVars, onModelChange, schedVars, mainPc, startArg, wnode, wstep, wtype, racyReads,
                   events, lastCall, notifyCount, runNo, runStopped, prevCompleted, outsideRead, edits, editorVars, bridgeVars>>

\* After the wait (AIModel.cpp:544-550): break if stopped, else pop the
\* front of the ready queue; the mutex is released at the end of the block.
WAfterWait(w) ==
    /\ wpc[w] = "afterwait"
    /\ mutexHolder = w
    /\ mutexHolder' = 0
    /\ IF ~executing
       THEN /\ wpc' = [wpc EXCEPT ![w] = "done"]
            /\ UNCHANGED <<readyQueue, wnode>>
       ELSE IF readyQueue # <<>>
            THEN /\ wnode' = [wnode EXCEPT ![w] = Head(readyQueue)]
                 /\ readyQueue' = Tail(readyQueue)
                 /\ wpc' = [wpc EXCEPT ![w] = "exec"]
            ELSE /\ wpc' = [wpc EXCEPT ![w] = "loop"]
                 /\ UNCHANGED <<readyQueue, wnode>>
    /\ UNCHANGED <<storeVars, onModelChange, executing, workerThreads, adjacency,
                   indegree, remainingNodes, numThreads, mainPc, startArg, wstep, wtype, racyReads,
                   events, lastCall, notifyCount, runNo, runStopped, prevCompleted, outsideRead, edits, editorVars, bridgeVars>>

\* ExecuteNode taking the node out of nodes_.
ExecuteNodeStore_Erased(S, nodeId) == RemoveNodeOp(S, nodeId)

\* The store after ExecuteNode has looked the node up: find_if over nodes_
\* and a const reference to the element; nothing is written.
ExecuteNodeStore(S, nodeId) == S

\* A worker's read of nodes_: one that overlaps an erase under way counts
\* against MaxRacyReads, the number of reads that overlap one erase.
RacyRead ==
    /\ Racing => racyReads < MaxRacyReads
    /\ racyReads' = IF Racing THEN racyReads + 1 ELSE racyReads

\* ExecuteNode up to its start event and the branch on node.type
\* (AIModel.cpp:582-595): return at once if the node is not in nodes_, else
\* report (0.0, "running") and pick the loop of the node's type.
WExecStart(w) ==
    /\ wpc[w] = "exec"
    /\ \E k \in FindReads(Store, wnode[w]) :
          IF k = 0
          THEN /\ wpc' = [wpc EXCEPT ![w] = "finish"]
               /\ UNCHANGED <<events, wstep, wtype>>
          ELSE /\ ReportProgress(wnode[w], 0, "running")
               /\ wstep' = [wstep EXCEPT ![w] = 0]
               /\ wtype' = [wtype EXCEPT ![w] = nodes[k].type]
               /\ wpc' = [wpc EXCEPT ![w] = "step"]
    /\ RacyRead
    /\ SetStore(ExecuteNodeStore(Store, wnode[w]))
    /\ UNCHANGED <<onModelChange, schedVars, mainPc, startArg, wnode,
                   lastCall, notifyCount, runNo, runStopped, prevCompleted, outsideRead, edits, editorVars, bridgeVars>>

\* ExecuteNode giving a node up between two steps once the run is stopped.
ExecuteNodeAbandons_WhenStopped(exec) == ~exec

\* Whether ExecuteNode leaves its loops early: the three loops and the
\* completion report never read executing_ (AIModel.cpp:595-616).
ExecuteNodeAbandons(exec) == FALSE

\* One timed step of ExecuteNode, or after the last one the completion
\* event (1.0, "completed") (AIModel.cpp:595-616).
WExecStep(w) ==
    /\ wpc[w] = "step"
    /\ LET type == wtype[w]
       IN IF ExecuteNodeAbandons(executing)
          THEN /\ wpc' = [wpc EXCEPT ![w] = "finish"]
               /\ UNCHANGED <<events, wstep>>
          ELSE IF wstep[w] < StepsOf(type)
          THEN /\ ReportProgress(wnode[w], StepProgress(type, wstep[w] + 1), "running")
               /\ wstep' = [wstep EXCEPT ![w] = wstep[w] + 1]
               /\ UNCHANGED wpc
          ELSE /\ ReportProgress(wnode[w], FloatDenominator, "completed")
               /\ wpc' = [wpc EXCEPT ![w] = "finish"]
               /\ UNCHANGED wstep
    /\ RacyRead
    /\ UNCHANGED <<wtype, storeVars, onModelChange, schedVars, mainPc, startArg, wnode,
                   lastCall, notifyCount, runNo, runStopped, prevCompleted, outsideRead, edits, editorVars, bridgeVars>>

\* Releasing a successor as soon as at most one predecessor is outstanding.
BecomesReady_OffByOne(count) == count <= 1

\* if (indegIt->second == 0) after the decrement (AIModel.cpp:563)
BecomesReady(count) == count = 0

RECURSIVE ReleaseSuccessors(_, _, _, _)
\* The loop over the successors of the executed node (AIModel.cpp:559-568):
\* decrement each known successor's indegree; one reaching 0 is pushed and
\* notify_one is called.  Returns the new indegree_, readyQueue_ and the
\* number of notify_one calls.
ReleaseSuccessors(succs, ind, queue, notified) ==
    IF succs = <<>> THEN [indegree |-> ind, readyQueue |-> queue, notified |-> notified]
    ELSE LET s == Head(succs)
         IN IF s \in DOMAIN ind
            THEN LET ind1 == [ind EXCEPT ![s] = ind[s] - 1]
                 IN IF BecomesReady(ind1[s])
                    THEN ReleaseSuccessors(Tail(succs), ind1, Append(queue, s), notified + 1)
                    ELSE ReleaseSuccessors(Tail(succs), ind1, queue, notified)
            ELSE ReleaseSuccessors(Tail(succs), ind, queue, notified)

\* The bookkeeping after ExecuteNode, under the mutex (AIModel.cpp:556-577).
WFinish(w) ==
    /\ wpc[w] = "finish"
    /\ mutexHolder = 0
    /\ LET succs == IF wnode[w] \in DOMAIN adjacency THEN adjacency[wnode[w]] ELSE <<>>
           rel == ReleaseSuccessors(succs, indegree, readyQueue, 0)
           allDone == remainingNodes - 1 <= 0
       IN /\ indegree' = rel.indegree
          /\ readyQueue' = rel.readyQueue
          /\ remainingNodes' = remainingNodes - 1
          /\ executing' = IF allDone THEN FALSE ELSE executing
          /\ \E S \in SUBSET Blocked :
                /\ IF allDone THEN S = Blocked
                   ELSE Cardinality(S) = Min(rel.notified, Cardinality(Blocked))
                /\ wpc' = [Wake(wpc, S) EXCEPT ![w] = "loop"]
    /\ UNCHANGED <<storeVars, onModelChange, workerThreads, adjacency, numThreads,
                   mutexHolder, mainPc, startArg, wnode, wstep, wtype, racyReads, events, lastCall,
                   notifyCount, runNo, runStopped, prevCompleted, outsideRead, edits, editorVars, bridgeVars>>

WorkerStep(w) ==
    \/ WLoop(w)
    \/ WLockPred(w)
    \/ WBlock(w)
    \/ WSpuriousWake(w)
    \/ WAfterWait(w)
    \/ WExecStart(w)
    \/ WExecStep(w)
    \/ WFinish(w)

(***************************************************************************)
(* Main thread: AIModel::StartExecution and AIModel::StopExecution.        *)
(*                                                                         *)
(* Positions of the main thread (mainPc):                                  *)
(*   "idle"        outside StartExecution / StopExecution                  *)
(*   "start_join"  StartExecution, joining the threads of a previous run   *)
(*   "stop_notify" StopExecution, executing_ cleared, before notify_all    *)
(*   "stop_join"   StopExecution, joining the workers                      *)
(***************************************************************************)
NoThreads == [x \in Workers |-> "none"]

\* The join loop of StartExecution going on without waiting for a thread.
AllJoinable_NoWait == TRUE

\* thread.join() returns for every thread held
AllJoinable == \A x \in workerThreads : wpc[x] = "done"

\* StartExecution from "if (executing_) return;" on (AIModel.cpp:441-498),
\* with workerThreads_ empty.
StartBody(n) ==
    /\ mainPc' = "idle"
    /\ IF executing
       THEN /\ wpc' = NoThreads
            /\ workerThreads' = {}
            /\ UNCHANGED <<executing, readyQueue, adjacency, indegree, remainingNodes,
                           numThreads, events, runNo, runStopped, prevCompleted>>
       ELSE LET g == BuildGraph(Store, 1, EmptyMap, ZeroIndegree(Store))
                abort == Len(nodes) > 0 /\ ReadySet(g.indegree) = {}
            IN /\ numThreads' = n
               /\ adjacency' = g.adjacency
               /\ indegree' = g.indegree
               /\ readyQueue' \in Orders(ReadySet(g.indegree))
               /\ events' = EmptyMap
               /\ runNo' = runNo + 1
               /\ runStopped' = FALSE
               /\ prevCompleted' = IF runNo = 0 THEN -1 ELSE CompletedTotal
               /\ executing' = ~abort
               /\ remainingNodes' = IF abort THEN remainingNodes ELSE InitialRemaining(Store)
               /\ workerThreads' = IF abort THEN {} ELSE 1..n
               /\ wpc' = [x \in Workers |-> IF ~abort /\ x <= n THEN "loop" ELSE "none"]
    /\ wnode' = [x \in Workers |-> -1]
    /\ wstep' = [x \in Workers |-> 0]
    /\ wtype' = [x \in Workers |-> ""]
    /\ UNCHANGED racyReads

\* StartExecution(n) is called.  With threads of a previous run held it
\* first joins them (AIModel.cpp:432-439).
StartExecution(n) ==
    /\ mainPc = "idle"
    /\ runNo < MaxRuns
    /\ lastCall' = "StartExecution"
    /\ startArg' = n
    /\ IF workerThreads # {}
       THEN /\ mainPc' = "start_join"
            /\ UNCHANGED <<schedVars, wpc, wnode, wstep, wtype, racyReads, events, runNo, runStopped, prevCompleted>>
       ELSE /\ StartBody(n)
            /\ UNCHANGED mutexHolder
    /\ UNCHANGED <<storeVars, onModelChange, notifyCount, outsideRead, edits, editorVars, bridgeVars>>

\* Every held thread has returned: the joins complete, workerThreads_ is
\* cleared and StartExecution goes on.
StartJoined ==
    /\ mainPc = "start_join"
    /\ AllJoinable
    /\ StartBody(startArg)
    /\ UNCHANGED <<storeVars, onModelChange, mutexHolder, startArg, lastCall,
                   notifyCount, outsideRead, edits, editorVars, bridgeVars>>

\* StopExecution proceeding although no thread is held.
StopHasNothingToJoin_Never == FALSE

\* if (workerThreads_.empty()) return; (AIModel.cpp:503-505)
StopHasNothingToJoin == workerThreads = {}

\* StopExecution() is called: it returns at once with no thread held, else
\* clears executing_ (AIModel.cpp:507), without taking queueMutex_.
StopExecution ==
    /\ mainPc = "idle"
    /\ lastCall' = "StopExecution"
    /\ IF StopHasNothingToJoin
       THEN UNCHANGED <<executing, mainPc, runStopped>>
       ELSE /\ executing' = FALSE
            /\ runStopped' = (runStopped \/ executing)
            /\ mainPc' = "stop_notify"
    /\ UNCHANGED <<storeVars, onModelChange, workerThreads, readyQueue, adjacency,
                   indegree, remainingNodes, numThreads, mutexHolder, startArg, wpc,
                   wnode, wstep, wtype, racyReads, events, notifyCount, runNo, prevCompleted, outsideRead, edits, editorVars, bridgeVars>>

\* queueCondition_.notify_all() (AIModel.cpp:510)
StopNotify ==
    /\ mainPc = "stop_notify"
    /\ wpc' = WakeAll(wpc)
    /\ mainPc' = "stop_join"
    /\ UNCHANGED <<storeVars, onModelChange, schedVars, startArg, wnode, wstep, wtype, racyReads,
                   events, lastCall, notifyCount, runNo, runStopped, prevCompleted, outsideRead, edits, editorVars, bridgeVars>>

\* The joins complete; the threads and the scheduling structures are
\* cleared (AIModel.cpp:513-528).
StopJoined ==
    /\ mainPc = "stop_join"
    /\ AllJoinable
    /\ workerThreads' = {}
    /\ wpc' = NoThreads
    /\ readyQueue' = <<>>
    /\ adjacency' = EmptyMap
    /\ indegree' = EmptyMap
    /\ remainingNodes' = 0
    /\ mainPc' = "idle"
    /\ UNCHANGED <<storeVars, onModelChange, executing, numThreads, mutexHolder,
                   startArg, wnode, wstep, wtype, racyReads, events, lastCall, notifyCount, runNo,
                   runStopped, prevCompleted, outsideRead, edits, editorVars, bridgeVars>>

(***************************************************************************)
(* Graph Store operations as actions of the main thread.  Each leaves the  *)
(* edit counter to the specification that uses it.                         *)
(***************************************************************************)
\* if (onModelChange_) onModelChange_();
Notify == notifyCount' = IF onModelChange THEN 1 ELSE 0

StoreFrame ==
    UNCHANGED <<onModelChange, schedVars, threadVars, events, runNo, runStopped, prevCompleted>>

\* The main thread is outside StartExecution / StopExecution, and the
\* program has not run into undefined behaviour.
StoreCallable == mainPc = "idle" /\ ~outsideRead

AddNode(node) ==
    /\ StoreCallable
    /\ SetStore(AddNodeOp(Store, node))
    /\ Notify
    /\ lastCall' = "AddNode"
    /\ StoreFrame
    /\ UNCHANGED outsideRead

\* RemoveNode invoking the callback once for the node and once more for
\* every edge its cascade erases.
RemoveNodeNotifications_PerDeletion(S, nodeId) ==
    1 + Cardinality({i \in DOMAIN S.edges : EdgeTouches(S, S.edges[i], nodeId)})

\* The invocations of the callback in one RemoveNode with a callback set:
\* the one call site after the cascade (AIModel.cpp:261).
RemoveNodeNotifications(S, nodeId) == 1

RemoveNode(nodeId) ==
    /\ StoreCallable
    /\ SetStore(RemoveNodeOp(Store, nodeId))
    /\ notifyCount' = IF onModelChange THEN RemoveNodeNotifications(Store, nodeId) ELSE 0
    /\ lastCall' = "RemoveNode"
    /\ StoreFrame
    /\ UNCHANGED outsideRead

UpdateNode(node) ==
    /\ StoreCallable
    /\ SetStore(UpdateNodeOp(Store, node))
    /\ Notify
    /\ lastCall' = "UpdateNode"
    /\ StoreFrame
    /\ UNCHANGED outsideRead

AddEdge(e) ==
    /\ StoreCallable
    /\ IF ValidateEdge(Store, e)
       THEN SetStore(AddEdgeOp(Store, e)) /\ Notify
       ELSE UNCHANGED storeVars /\ notifyCount' = 0
    /\ lastCall' = "AddEdge"
    /\ StoreFrame
    /\ UNCHANGED outsideRead

RemoveEdge(edgeId) ==
    /\ StoreCallable
    /\ SetStore(RemoveEdgeOp(Store, edgeId))
    /\ Notify
    /\ lastCall' = "RemoveEdge"
    /\ StoreFrame
    /\ UNCHANGED outsideRead

RemoveEdgesBetweenNodes(fromNodeId, toNodeId) ==
    /\ StoreCallable
    /\ SetStore(RemoveEdgesBetweenNodesOp(Store, fromNodeId, toNodeId))
    /\ Notify
    /\ lastCall' = "RemoveEdgesBetweenNodes"
    /\ StoreFrame
    /\ UNCHANGED outsideRead

AddConnection(fromNode, toNode, fromOutput, toInput) ==
    /\ StoreCallable
    /\ IF ConnectionResolves(Store, fromNode, toNode, fromOutput, toInput)
       THEN \E e \in ConnectionEdges(Store, fromNode, toNode, fromOutput, toInput) :
               /\ SetStore(AddConnectionOp(Store, e))
               /\ notifyCount' = IF ValidateEdge(Store, e) /\ onModelChange THEN 1 ELSE 0
       ELSE UNCHANGED storeVars /\ notifyCount' = 0
    /\ outsideRead' = ReadsOutside(Store, fromNode, toNode, fromOutput, toInput)
    /\ lastCall' = "AddConnection"
    /\ StoreFrame

LoadFromFile(file) ==
    /\ StoreCallable
    /\ IF file.open
       THEN SetStore(LoadFromFileOp(file)) /\ Notify
       ELSE UNCHANGED storeVars /\ notifyCount' = 0
    /\ lastCall' = "LoadFromFile"
    /\ StoreFrame
    /\ UNCHANGED outsideRead

SetModelChangeCallback(callback) ==
    /\ StoreCallable
    /\ onModelChange' = callback
    /\ lastCall' = "SetModelChangeCallback"
    /\ notifyCount' = 0
    /\ UNCHANGED <<storeVars, schedVars, threadVars, events, runNo, runStopped, prevCompleted,
                   outsideRead>>

(***************************************************************************)
(* Spec: the scheduler.  The store starts as the test program builds one   *)
(* (ai_execution_test.cpp:11-20): AddNode for nodes 1..k without ports,    *)
(* then AddConnection(u, v, 0, 0) for a set of pairs of distinct nodes.    *)
(***************************************************************************)
\* The type tags of the test's nodes: 1 Conv2D, 2 MaxPool, then Generic.
TypeOfNode(id) == IF id = 1 THEN "Conv2D" ELSE IF id = 2 THEN "MaxPool" ELSE "Generic"

\* The names of the test's nodes.
NameOfNode(id) == IF id = 1 THEN "Node1" ELSE IF id = 2 THEN "Node2" ELSE "Node3"

RECURSIVE WithNodes(_, _, _)
WithNodes(S, id, k) ==
    IF id > k THEN S
    ELSE WithNodes(AddNodeOp(S, WithName(AINode(id, TypeOfNode(id), <<>>, <<>>),
                                         NameOfNode(id))),
                   id + 1, k)

RECURSIVE WithConnections(_, _)
\* AddConnection for every pair of the set, in ascending order.
WithConnections(S, pairs) ==
    IF pairs = {} THEN S
    ELSE LET p == CHOOSE x \in pairs :
                      \A y \in pairs : x[1] < y[1] \/ (x[1] = y[1] /\ x[2] <= y[2])
             e == CHOOSE x \in ConnectionEdges(S, p[1], p[2], 0, 0) : TRUE
         IN WithConnections(AddConnectionOp(S, e), pairs \ {p})

SchedGraphs ==
    UNION {
        {WithConnections(WithNodes(EmptyStore, 1, k), pairs) :
            pairs \in {ps \in SUBSET {<<u, v>> \in (1..k) \X (1..k) : u # v} :
                          Cardinality(ps) <= MaxEdges}}
        : k \in 0..MaxNodes}

SchedulerConstructed ==
    /\ executing = FALSE
    /\ workerThreads = {}
    /\ readyQueue = <<>>
    /\ adjacency = EmptyMap
    /\ indegree = EmptyMap
    /\ remainingNodes = 0
    /\ numThreads = 1
    /\ mutexHolder = 0
    /\ mainPc = "idle"
    /\ startArg = 1
    /\ wpc = NoThreads
    /\ wnode = [x \in Workers |-> -1]
    /\ wstep = [x \in Workers |-> 0]
    /\ wtype = [x \in Workers |-> ""]
    /\ racyReads = 0
    /\ events = EmptyMap
    /\ lastCall = "none"
    /\ notifyCount = 0
    /\ runNo = 0
    /\ runStopped = FALSE
    /\ prevCompleted = -1
    /\ outsideRead = FALSE
    /\ edits = 0

\* NodeEditor's constructor (NodeEditor.cpp:8) and the members' initialisers.
EditorConstructed ==
    /\ editorNodes = <<>>
    /\ links = <<>>
    /\ current_id = 0
    /\ pendingOps = <<>>
    /\ pendingConnections = <<>>
    /\ onNodeChange = FALSE

\* SyncManager's constructor (SyncManager.cpp:6-8).
BridgeConstructed ==
    /\ editorChanged = FALSE
    /\ modelChanged = FALSE
    /\ prevCall = "none"

Init ==
    /\ \E G \in SchedGraphs :
          /\ nodes = G.nodes
          /\ edges = G.edges
          /\ allPorts = G.allPorts
          /\ portIndex = G.portIndex
          /\ nextPortId = G.nextPortId
          /\ nextEdgeId = G.nextEdgeId
    /\ onModelChange = FALSE
    /\ SchedulerConstructed
    /\ EditorConstructed
    /\ BridgeConstructed

NodeIdsHeld == {nodes[i].id : i \in DOMAIN nodes}

\* A store edit by the main thread while no worker thread is running.
\* The graph of the first run is the one Init chose; edits come after it.
EditAllowed ==
    /\ mainPc = "idle"
    /\ runNo >= 1
    /\ edits < MaxEdits
    /\ AllJoinable

SchedAddConnection ==
    /\ EditAllowed
    /\ edits' = edits + 1
    /\ \E u, v \in NodeIdsHeld : u # v /\ AddConnection(u, v, 0, 0)
    /\ UNCHANGED <<editorVars, bridgeVars>>

SchedRemoveNode ==
    /\ EditAllowed
    /\ edits' = edits + 1
    /\ \E id \in NodeIdsHeld : RemoveNode(id)
    /\ UNCHANGED <<editorVars, bridgeVars>>

Next ==
    \/ \E n \in 0..MaxThreads : StartExecution(n)
    \/ StartJoined
    \/ StopExecution
    \/ StopNotify
    \/ StopJoined
    \/ \E w \in Workers : WorkerStep(w)
    \/ SchedAddConnection
    \/ SchedRemoveNode

Spec == Init /\ [][Next]_vars

(***************************************************************************)
(* SpecStore: the Graph Store operations, from the empty store.            *)
(***************************************************************************)
StoreNodeIds == 1..StoreMaxNodes

\* Nodes a caller hands to AddNode: without ports (defaults are synthesized)
\* or with one input and one output port, without ids, of concrete types.
PortListInputs ==
    {<<<<>>, <<>>>>,
     <<<<Port(0, "int", TRUE, 0)>>, <<Port(0, "int", FALSE, 0)>>>>,
     <<<<Port(0, "int", TRUE, 0)>>, <<Port(0, "float", FALSE, 0)>>>>,
     <<<<Port(FirstPortId + 1, "any", TRUE, 0)>>, <<>>>>}

NodeInputs ==
    {AINode(id, "Generic", pl[1], pl[2]) : id \in StoreNodeIds, pl \in PortListInputs}

\* Port ids an edge may name: those of the ports held, and one that is not.
PortIdInputs == {allPorts[i].id : i \in DOMAIN allPorts} \cup {FirstPortId + MaxPortAlloc}

\* An edge comes without an id (0) or with one of the caller's.
EdgeInputs ==
    {Edge(id, from, to) : id \in {0, FirstEdgeId + 1}, from \in PortIdInputs, to \in PortIdInputs}

\* Records handed to UpdateNode: a copy of a held node, or a new record for
\* its id with another type tag and no ports.
UpdateInputs ==
    {nodes[i] : i \in DOMAIN nodes}
    \cup {AINode(nodes[i].id, "Conv2D", <<>>, <<>>) : i \in DOMAIN nodes}

\* Connection lines: between two nodes, from a node to itself, and one line
\* whose source index is out of range.
ConnLineInputs ==
    {<<1, 2, 0, 0>>, <<1, 1, 0, 0>>, <<2, 2, 0, 0>>, <<1, 1, 1, 0>>}

\* Node sections: no line, one line, or two lines with distinct or equal ids.
NodeLineInputs ==
    {<<>>} \cup {<<[id |-> 1, type |-> "Generic"]>>}
    \cup {<<[id |-> 1, type |-> "Generic"], [id |-> id, type |-> "Generic"]>> : id \in StoreNodeIds}

FileInputs ==
    {ModelFile(FALSE, <<>>, <<>>)}
    \cup {ModelFile(TRUE, ns, cs) :
             ns \in NodeLineInputs, cs \in {<<>>} \cup {<<c>> : c \in ConnLineInputs}}

\* Port index pairs handed to AddConnection: both within the lists, or one
\* of them below or above.
PortIndexInputs == {<<0, 0>>, <<-1, 0>>, <<0, -1>>, <<1, 0>>, <<0, 1>>}

\* The ports AddNode creates fresh ids for.
FreshPortsNeeded(node) ==
    (IF node.inputPorts = <<>> THEN 1 ELSE Cardinality({i \in DOMAIN node.inputPorts : node.inputPorts[i].id <= 0}))
    + (IF node.outputPorts = <<>> THEN 1 ELSE Cardinality({i \in DOMAIN node.outputPorts : node.outputPorts[i].id <= 0}))

PortIdsLeft == FirstPortId + MaxPortAlloc - nextPortId
EdgeIdsLeft == FirstEdgeId + MaxEdgeAlloc - nextEdgeId

InitStore ==
    /\ nodes = <<>>
    /\ edges = <<>>
    /\ allPorts = <<>>
    /\ portIndex = EmptyMap
    /\ nextPortId = FirstPortId
    /\ nextEdgeId = FirstEdgeId
    /\ onModelChange = FALSE
    /\ SchedulerConstructed
    /\ EditorConstructed
    /\ BridgeConstructed

StoreAddNode ==
    /\ \E node \in NodeInputs :
          /\ Len(nodes) < StoreMaxNodes
          /\ FreshPortsNeeded(node) <= PortIdsLeft
          /\ AddNode(node)
    /\ UNCHANGED <<edits, editorVars, bridgeVars>>

StoreRemoveNode ==
    /\ \E id \in StoreNodeIds : RemoveNode(id)
    /\ UNCHANGED <<edits, editorVars, bridgeVars>>

StoreUpdateNode ==
    /\ \E node \in UpdateInputs : UpdateNode(node)
    /\ UNCHANGED <<edits, editorVars, bridgeVars>>

StoreAddEdge ==
    /\ \E e \in EdgeInputs :
          /\ Len(edges) < StoreMaxEdges
          /\ EdgeIdsLeft >= 1
          /\ AddEdge(e)
    /\ UNCHANGED <<edits, editorVars, bridgeVars>>

StoreRemoveEdge ==
    /\ \E id \in {edges[i].id : i \in DOMAIN edges} : RemoveEdge(id)
    /\ UNCHANGED <<edits, editorVars, bridgeVars>>

StoreRemoveEdgesBetweenNodes ==
    /\ \E u, v \in StoreNodeIds : RemoveEdgesBetweenNodes(u, v)
    /\ UNCHANGED <<edits, editorVars, bridgeVars>>

StoreAddConnection ==
    /\ \E u, v \in StoreNodeIds, ix \in PortIndexInputs :
          /\ Len(edges) < StoreMaxEdges
          /\ EdgeIdsLeft >= 1
          /\ AddConnection(u, v, ix[1], ix[2])
    /\ UNCHANGED <<edits, editorVars, bridgeVars>>

StoreLoadFromFile ==
    /\ \E file \in FileInputs : LoadFromFile(file)
    /\ UNCHANGED <<edits, editorVars, bridgeVars>>

StoreSetModelChangeCallback ==
    /\ \E callback \in BOOLEAN : SetModelChangeCallback(callback)
    /\ UNCHANGED <<edits, editorVars, bridgeVars>>

NextStore ==
    \/ StoreAddNode
    \/ StoreRemoveNode
    \/ StoreUpdateNode
    \/ StoreAddEdge
    \/ StoreRemoveEdge
    \/ StoreRemoveEdgesBetweenNodes
    \/ StoreAddConnection
    \/ StoreLoadFromFile
    \/ StoreSetModelChangeCallback

SpecStore == InitStore /\ [][NextStore]_vars


(***************************************************************************)
(* Properties of the Execution Scheduler (specification Spec).             *)
(***************************************************************************)
\* The node owning a port, as the scheduler resolves it.
OwnerOf(portId) == GetPort(Store, portId).nodeId

\* <<u, v>>: some stored edge leads from a port of node u to a port of node v.
Depends ==
    {<<OwnerOf(edges[i].fromPortId), OwnerOf(edges[i].toPortId)>> :
        i \in {j \in DOMAIN edges : /\ HasPort(Store, edges[j].fromPortId)
                                    /\ HasPort(Store, edges[j].toPortId)}}

RECURSIVE ReachableFrom(_, _)
\* The nodes reached from the set seen by following edges, seen excluded
\* unless reached again.
ReachableFrom(frontier, seen) ==
    LET next == {d[2] : d \in {x \in Depends : x[1] \in frontier}}
    IN IF next \subseteq seen THEN seen
       ELSE ReachableFrom(next \ seen, seen \cup next)

HasCycle == \E n \in NodeIdsHeld : n \in ReachableFrom({n}, {})

\* Every node has an incoming edge: no node has indegree 0.
NoNodeHasIndegreeZero == \A n \in NodeIdsHeld : \E d \in Depends : d[2] = n

NoEvents == \A n \in DOMAIN events : events[n] = <<>>

\* StartExecution has returned and nothing else was called since.
StartReturned == lastCall = "StartExecution" /\ mainPc = "idle"

\* StartExecution has returned having started at least one worker on an
\* acyclic graph, and nothing else was called since: the run is not stopped.
UnstoppedRun == StartReturned /\ workerThreads # {} /\ ~HasCycle

\* A node's execution began (its first event is delivered) this many times.
StartedCount(n) ==
    Cardinality({i \in DOMAIN EventsOf(n) : EventsOf(n)[i][1] = 0 /\ EventsOf(n)[i][2] = "running"})

EveryNodeAtMostOnce ==
    /\ DOMAIN events \subseteq NodeIdsHeld
    /\ \A n \in NodeIdsHeld : StartedCount(n) <= 1 /\ CompletedCount(n) <= 1

EveryNodeExactlyOnce ==
    /\ \A n \in NodeIdsHeld : StartedCount(n) = 1 /\ CompletedCount(n) = 1
    /\ CompletedTotal = Len(nodes)

\* No worker can take a step by itself: each waits on the condition variable
\* or is about to.
AllWorkersWaiting == \A w \in workerThreads : wpc[w] \in {"toblock", "blocked"}

\* C1: on an acyclic graph with at least one node, a run with N >= 1 workers
\* that is not stopped never executes a node twice, never leaves all its
\* workers waiting while nodes remain, and once it is over every node has
\* exactly one "completed" event and there are as many as there are nodes.
C1_EveryNodeExactlyOnce ==
    (UnstoppedRun /\ nodes # <<>>) =>
        /\ EveryNodeAtMostOnce
        /\ executing => ~AllWorkersWaiting
        /\ ~executing => EveryNodeExactlyOnce

\* A run of two workers on three nodes joined by edges is over with every
\* node completed once.
C1_Witness ==
    /\ UnstoppedRun
    /\ numThreads = 2
    /\ Len(nodes) = 3
    /\ Len(edges) = 2
    /\ ~executing
    /\ EveryNodeExactlyOnce

\* The events seen belong to the graph held: StartExecution has returned, or
\* StopExecution is under way on the workers of that run.
RunObserved ==
    \/ StartReturned
    \/ lastCall = "StopExecution" /\ mainPc # "idle"

\* C2: in every run, for every edge from a port of node u to a port of node
\* v, no progress event of v is delivered before u's "completed" event.
C2_DependenciesRespected ==
    RunObserved =>
        \A d \in Depends : EventsOf(d[2]) # <<>> => CompletedCount(d[1]) >= 1

\* Node 3 depends on nodes 1 and 2 and has begun, after both completed.
C2_Witness ==
    /\ RunObserved
    /\ numThreads = 2
    /\ {<<1, 3>>, <<2, 3>>} \subseteq Depends
    /\ EventsOf(3) # <<>>
    /\ CompletedCount(1) = 1 /\ CompletedCount(2) = 1

\* C3: StopExecution returns under every interleaving with the workers: no
\* worker stays blocked on the condition variable once StopExecution is
\* joining, with nobody left to wake it.
C3_StopReleasesEveryWorker ==
    ~(/\ mainPc = "stop_join"
      /\ \A w \in workerThreads : wpc[w] \in {"blocked", "done"}
      /\ \E w \in workerThreads : wpc[w] = "blocked")

\* C4: StartExecution on a graph with a directed cycle aborts before any
\* node executes, whether or not the cycle covers all nodes.
C4_CycleAbortsBeforeAnyNode ==
    (StartReturned /\ HasCycle) => (NoEvents /\ workerThreads = {})

\* C5: StartExecution on a non-empty graph in which no node has indegree 0
\* starts no worker, delivers no event and returns with IsExecuting() false.
C5_FullCycleAborts ==
    (StartReturned /\ nodes # <<>> /\ NoNodeHasIndegreeZero) =>
        (workerThreads = {} /\ NoEvents /\ ~executing)

\* No worker is inside ExecuteNode for node n.
NotExecuting(n) == \A w \in workerThreads : ~(wnode[w] = n /\ wpc[w] \in {"exec", "step"})

\* C6: a node's own progress events start at 0, never decrease, stay within
\* [0, 1], are "running" except the last, and once its execution is over the
\* last is "completed" at exactly 1.0.
C6_ProgressMonotonicPerNode ==
    \A n \in DOMAIN events :
        LET s == events[n]
        IN s # <<>> =>
            /\ s[1][1] = 0 /\ s[1][2] = "running"
            /\ \A i \in DOMAIN s : s[i][1] >= 0 /\ s[i][1] <= FloatDenominator
            /\ \A i \in 1..(Len(s) - 1) : s[i][1] <= s[i + 1][1] /\ s[i][2] = "running"
            /\ s[Len(s)][2] = "completed" => s[Len(s)][1] = FloatDenominator
            /\ NotExecuting(n) => (s[Len(s)][1] = FloatDenominator /\ s[Len(s)][2] = "completed")

\* A Conv2D node has delivered all its twelve events while another worker
\* is in the middle of another node.
C6_Witness ==
    /\ \E n \in DOMAIN events :
          /\ Len(events[n]) = Conv2DSteps + 2
          /\ events[n][Len(events[n])][1] = FloatDenominator
          /\ events[n][Len(events[n])][2] = "completed"
    /\ \E m \in DOMAIN events :
          /\ Len(events[m]) >= 2
          /\ ~NotExecuting(m)

\* C7: a run started after an earlier run, whether that one completed or
\* was stopped, is built from the graph now held and executes every node of
\* the acyclic graph exactly once, whatever the earlier run had executed.
C7_RestartExecutesEveryNode ==
    (UnstoppedRun /\ runNo >= 2) =>
        /\ DOMAIN indegree = NodeIdsHeld
        /\ \A u \in NodeIdsHeld :
              {v \in NodeIdsHeld : <<u, v>> \in Depends} =
                 IF u \in DOMAIN adjacency THEN Range(adjacency[u]) ELSE {}
        /\ \A n \in Range(readyQueue) : n \in NodeIdsHeld /\ indegree[n] = 0
        /\ remainingNodes <= Len(nodes)
        /\ EveryNodeAtMostOnce
        /\ ~executing => EveryNodeExactlyOnce

\* The second run has completed all three nodes after the first run was
\* stopped with one of them completed.
C7_Witness ==
    /\ UnstoppedRun
    /\ runNo = 2
    /\ prevCompleted = 1
    /\ Len(nodes) = 3
    /\ edges # <<>>
    /\ ~executing
    /\ EveryNodeExactlyOnce

\* A StopExecution call made while no worker thread is held.
StopWithNothingToJoin ==
    /\ mainPc = "idle"
    /\ workerThreads = {}
    /\ lastCall' = "StopExecution"

\* C8: StopExecution with no worker held changes no scheduler or store
\* state and delivers no event, and whenever StopExecution has returned no
\* worker is held, so that a second call is that no-op.
C8_StopIdempotent ==
    /\ [][StopWithNothingToJoin =>
            UNCHANGED <<storeVars, schedVars, mainPc, wpc, wnode, wstep, wtype, racyReads, events,
                        notifyCount>>]_vars
    /\ [](lastCall = "StopExecution" /\ mainPc = "idle" =>
            workerThreads = {})

\* StopExecution has returned from a run it stopped before every node was
\* completed: the state a second call meets.
C8_Witness ==
    /\ lastCall = "StopExecution"
    /\ mainPc = "idle"
    /\ runStopped
    /\ Len(nodes) = 3
    /\ CompletedTotal = 1
    /\ adjacency = EmptyMap


(***************************************************************************)
(* Properties of the Graph Store (specification SpecStore).                *)
(***************************************************************************)
\* The port record held under an id (none, or the one registered last).
PortsHeld(portId) ==
    LET hits == {j \in DOMAIN allPorts : allPorts[j].id = portId}
    IN IF hits = {} THEN {} ELSE {allPorts[CHOOSE i \in hits : \A j \in hits : j <= i]}

\* The edge invariant of the store, read off the port records: both ports
\* are held, the source is an output, the destination an input, they belong
\* to different nodes, and concrete data types match.
EdgeInvariant(e) ==
    /\ PortsHeld(e.fromPortId) # {}
    /\ PortsHeld(e.toPortId) # {}
    /\ \A p \in PortsHeld(e.fromPortId), q \in PortsHeld(e.toPortId) :
          /\ ~p.isInput
          /\ q.isInput
          /\ p.nodeId # q.nodeId
          /\ (p.dataType # "any" /\ q.dataType # "any") => p.dataType = q.dataType

\* The ports listed in the records of node u are the ports the store holds
\* under their ids, owned by u.
OwnPortsResolve(u) ==
    \A i \in DOMAIN nodes :
        nodes[i].id = u =>
           \A p \in Range(nodes[i].inputPorts) \cup Range(nodes[i].outputPorts) :
              \E q \in PortsHeld(p.id) : q.nodeId = u

StoreUntouched == UNCHANGED <<nodes, edges, allPorts, portIndex>> /\ notifyCount' = 0

C10_EveryStoredEdgeValid == \A i \in DOMAIN edges : EdgeInvariant(edges[i])


\* The edge has a port the store resolves to a port of node id.
IncidentTo(e, id) ==
    \/ HasPort(Store, e.fromPortId) /\ OwnerOf(e.fromPortId) = id
    \/ HasPort(Store, e.toPortId) /\ OwnerOf(e.toPortId) = id

\* What RemoveNode(id) leaves: no node id, no port of node id (held or
\* resolvable), no edge with a port of node id; the other nodes, the ports
\* of other nodes and the edges not incident to node id as they were.
RemovedCleanly(id) ==
    /\ \A i \in DOMAIN nodes' : nodes'[i].id # id
    /\ \A i \in DOMAIN allPorts' : allPorts'[i].nodeId # id
    /\ \A pid \in DOMAIN portIndex' :
          HasPort(Store', pid) => GetPort(Store', pid).nodeId # id
    /\ \A i \in DOMAIN edges' :
          /\ HasPort(Store', edges'[i].fromPortId)
                => GetPort(Store', edges'[i].fromPortId).nodeId # id
          /\ HasPort(Store', edges'[i].toPortId)
                => GetPort(Store', edges'[i].toPortId).nodeId # id
    /\ nodes' = SelectSeq(nodes, LAMBDA n : n.id # id)
    /\ allPorts' = SelectSeq(allPorts, LAMBDA q : q.nodeId # id)
    /\ edges' = SelectSeq(edges, LAMBDA e : ~IncidentTo(e, id))
    /\ \A pid \in DOMAIN portIndex :
          (HasPort(Store, pid) /\ OwnerOf(pid) # id) =>
             (HasPort(Store', pid) /\ GetPort(Store', pid) = GetPort(Store, pid))

\* C11: after RemoveNode(id) no edge has a port owned by node id, none of
\* the node's ports resolves through GetPort, the node is gone, and the
\* edges between other nodes and the ports of other nodes are unchanged.
C11_RemoveNodeRemovesIncidentEdges ==
    [][lastCall' = "RemoveNode" =>
          \A id \in StoreNodeIds : RemoveNode(id) => RemovedCleanly(id)]_vars

\* RemoveNode has left one node and one edge in a store that had made two
\* edges.
C11_Witness ==
    /\ lastCall = "RemoveNode"
    /\ Len(nodes) = 1
    /\ Len(edges) = 1
    /\ nextEdgeId = FirstEdgeId + 2

\* C12: no two nodes of the store have the same id.
C12_NodeIdsUnique ==
    \A i, j \in DOMAIN nodes : nodes[i].id = nodes[j].id => i = j

\* C13: no two registered ports share an id, whichever nodes own them.
C13_PortIdsUnique ==
    \A i, j \in DOMAIN allPorts : allPorts[i].id = allPorts[j].id => i = j

\* C14: every node has at least one input port and one output port.
C14_EveryNodeHasPorts ==
    \A i \in DOMAIN nodes : nodes[i].inputPorts # <<>> /\ nodes[i].outputPorts # <<>>

\* C15: AddConnection never reads a port list outside its bounds, whatever
\* the node ids and port indices it is given.
C15_NoAccessOutsidePortLists == ~outsideRead

(***************************************************************************)
(* Interaction Store (class NodeEditor, src/src/NodeEditor.h and           *)
(* src/src/NodeEditor.cpp).  Positions, the selected flag and the window   *)
(* are left out; the position of an Add request is a function of its name  *)
(* (NodeEditor.cpp:181-191) or of the model node it is bound to.  The      *)
(* fromOutput / toInput fields of a PendingConnection are left out: no     *)
(* branch reads them (ProcessDeferredOps links outputs[0] to inputs[0]).   *)
(***************************************************************************)
\* SpecSync: the main thread calls at most MaxBridgeSteps operations that
\* queue, edit or sync (passes of Render are not counted),
MaxBridgeSteps == 6
\* and the Graph Store is edited directly on node ids 1 .. MaxModelId.
MaxModelId == 2

UINode(id, name, ins, outs, bound) ==
    [id |-> id, name |-> name, inputs |-> ins, outputs |-> outs, boundAINodeId |-> bound]

Link(id, startNode, endNode, startAttr, endAttr) ==
    [id |-> id, start_node |-> startNode, end_node |-> endNode,
     start_attr |-> startAttr, end_attr |-> endAttr]

\* DeferredNodeOp; the field by is an observation: who queued the request.
AddOp(name, bound, by) ==
    [type |-> "ADD", name |-> name, boundAINodeId |-> bound, nodeId |-> -1, by |-> by]

RemoveOp(nodeId, by) ==
    [type |-> "REMOVE", name |-> "", boundAINodeId |-> -1, nodeId |-> nodeId, by |-> by]

PendingConnection(from, to) == [fromAiNodeId |-> from, toAiNodeId |-> to]

\* The node set, the link set and the id counter as one value.
Editor == [nodes |-> editorNodes, links |-> links, current_id |-> current_id]

SetEditor(E) ==
    /\ editorNodes' = E.nodes
    /\ links' = E.links
    /\ current_id' = E.current_id

\* NodeEditor::AddNode queueing every request.
QueueAdd_NoCoalesce(ops, name, bound, by) == Append(ops, AddOp(name, bound, by))

\* NodeEditor::AddNode: an identical pending ADD request drops the new one.
QueueAdd(ops, name, bound, by) ==
    IF \E i \in DOMAIN ops : /\ ops[i].type = "ADD"
                             /\ ops[i].name = name
                             /\ ops[i].boundAINodeId = bound
    THEN ops
    ELSE Append(ops, AddOp(name, bound, by))

\* NodeEditor::RemoveNode: a pending REMOVE of the same node drops the new one.
QueueRemove(ops, nodeId, by) ==
    IF \E i \in DOMAIN ops : ops[i].type = "REMOVE" /\ ops[i].nodeId = nodeId
    THEN ops
    ELSE Append(ops, RemoveOp(nodeId, by))

\* NodeEditor::AddLink on the editor value.
AddLinkOp(E, startNode, endNode, startAttr, endAttr) ==
    [E EXCEPT !.links = Append(E.links, Link(E.current_id, startNode, endNode,
                                              startAttr, endAttr)),
              !.current_id = E.current_id + 1]

\* NodeEditor::RemoveLink on the editor value.
RemoveLinkOp(E, linkId) ==
    [E EXCEPT !.links = SelectWhere(E.links, [i \in DOMAIN E.links |-> E.links[i].id = linkId])]

\* ProcessDeferredOps erasing the node of a REMOVE request and leaving its
\* links in place.
ApplyOp_KeepLinks(E, op) ==
    IF op.type = "ADD"
    THEN [E EXCEPT !.nodes = Append(E.nodes, UINode(E.current_id, op.name,
                                                    <<E.current_id + 1>>,
                                                    <<E.current_id + 2>>,
                                                    op.boundAINodeId)),
                   !.current_id = E.current_id + 3]
    ELSE [E EXCEPT !.nodes = SelectWhere(E.nodes,
                                [i \in DOMAIN E.nodes |-> E.nodes[i].id = op.nodeId])]

\* One request of ProcessDeferredOps' first loop.
ApplyOp(E, op) ==
    IF op.type = "ADD"
    THEN [E EXCEPT !.nodes = Append(E.nodes, UINode(E.current_id, op.name,
                                                    <<E.current_id + 1>>,
                                                    <<E.current_id + 2>>,
                                                    op.boundAINodeId)),
                   !.current_id = E.current_id + 3]
    ELSE [E EXCEPT !.links = SelectWhere(E.links,
                                [i \in DOMAIN E.links |->
                                    \/ E.links[i].start_node = op.nodeId
                                    \/ E.links[i].end_node = op.nodeId]),
                   !.nodes = SelectWhere(E.nodes,
                                [i \in DOMAIN E.nodes |-> E.nodes[i].id = op.nodeId])]

\* ProcessDeferredOps applying the first request only.
ApplyOps_FirstOnly(E, ops) ==
    IF ops = <<>> THEN E ELSE ApplyOp(E, Head(ops))

RECURSIVE ApplyOps(_, _)
\* for (const auto& op : deferredOps_) ...
ApplyOps(E, ops) ==
    IF ops = <<>> THEN E ELSE ApplyOps(ApplyOp(E, Head(ops)), Tail(ops))

\* aiToUiNodeMap: bound model id -> UI node id; a later node overwrites.
AiToUiNodeMap(ns) ==
    LET bounds == {ns[i].boundAINodeId : i \in DOMAIN ns} \ {-1}
    IN [b \in bounds |->
           LET hits == {i \in DOMAIN ns : ns[i].boundAINodeId = b}
           IN ns[CHOOSE i \in hits : \A j \in hits : j <= i].id]

\* The node with the id (the search loop of ProcessDeferredOps).
UINodeById(ns, id) == ns[CHOOSE i \in DOMAIN ns : ns[i].id = id]

\* The second loop of ProcessDeferredOps linking the first node to itself
\* for a request that does not resolve.
ApplyConnection_Unresolved(E, conn) ==
    IF E.nodes = <<>> THEN E
    ELSE AddLinkOp(E, E.nodes[1].id, E.nodes[1].id, E.nodes[1].outputs[1], E.nodes[1].inputs[1])

\* One pending connection of ProcessDeferredOps' second loop.
ApplyConnection(E, conn) ==
    LET m == AiToUiNodeMap(E.nodes)
    IN IF conn.fromAiNodeId \in DOMAIN m /\ conn.toAiNodeId \in DOMAIN m
       THEN LET fromNode == UINodeById(E.nodes, m[conn.fromAiNodeId])
                toNode == UINodeById(E.nodes, m[conn.toAiNodeId])
            IN IF fromNode.outputs # <<>> /\ toNode.inputs # <<>>
               THEN AddLinkOp(E, fromNode.id, toNode.id, fromNode.outputs[1], toNode.inputs[1])
               ELSE E
       ELSE E

RECURSIVE ApplyConnections(_, _)
ApplyConnections(E, conns) ==
    IF conns = <<>> THEN E
    ELSE ApplyConnections(ApplyConnection(E, Head(conns)), Tail(conns))

\* ProcessDeferredOps on a non-empty request list, without the notification.
ProcessDeferredOps(E, ops, conns) == ApplyConnections(ApplyOps(E, ops), conns)

(***************************************************************************)
(* Interaction Store: the public operations and the pass (Render), all on  *)
(* the main thread.  The window exists (Initialize succeeded).             *)
(***************************************************************************)
EditorFrame ==
    UNCHANGED <<storeVars, onModelChange, schedVars, threadVars, events, notifyCount,
                runNo, runStopped, prevCompleted, outsideRead>>

\* NodeEditor::AddNode(name, posX, posY, boundAINodeId)
EditorAddNode(name, bound) ==
    /\ pendingOps' = QueueAdd(pendingOps, name, bound, "user")
    /\ lastCall' = "NodeEditor::AddNode"
    /\ prevCall' = lastCall
    /\ UNCHANGED <<editorNodes, links, current_id, pendingConnections, onNodeChange, editorChanged, modelChanged>>
    /\ EditorFrame

\* NodeEditor::RemoveNode(nodeId)
EditorRemoveNode(nodeId) ==
    /\ pendingOps' = QueueRemove(pendingOps, nodeId, "user")
    /\ lastCall' = "NodeEditor::RemoveNode"
    /\ prevCall' = lastCall
    /\ UNCHANGED <<editorNodes, links, current_id, pendingConnections, onNodeChange, editorChanged, modelChanged>>
    /\ EditorFrame

\* NodeEditor::AddLink
EditorAddLink(startNode, endNode, startAttr, endAttr) ==
    /\ SetEditor(AddLinkOp(Editor, startNode, endNode, startAttr, endAttr))
    /\ lastCall' = "NodeEditor::AddLink"
    /\ prevCall' = lastCall
    /\ UNCHANGED <<pendingOps, pendingConnections, onNodeChange, editorChanged, modelChanged>>
    /\ EditorFrame

\* NodeEditor::RemoveLink
EditorRemoveLink(linkId) ==
    /\ SetEditor(RemoveLinkOp(Editor, linkId))
    /\ lastCall' = "NodeEditor::RemoveLink"
    /\ prevCall' = lastCall
    /\ UNCHANGED <<pendingOps, pendingConnections, onNodeChange, editorChanged, modelChanged>>
    /\ EditorFrame

\* The invocations of onNodeChange_ in one ProcessDeferredOps: none when
\* no request is deferred (it returns at once) or no callback is set, else
\* the one call after the two loops (NodeEditor.cpp:393-395, 464).
PassNotifications(ops, installed) == IF ops = <<>> \/ ~installed THEN 0 ELSE 1

\* NodeEditor::QueueConnectionForSync
EditorQueueConnection(fromAiNodeId, toAiNodeId) ==
    /\ pendingConnections' = Append(pendingConnections,
                                    PendingConnection(fromAiNodeId, toAiNodeId))
    /\ lastCall' = "NodeEditor::QueueConnectionForSync"
    /\ prevCall' = lastCall
    /\ UNCHANGED <<editorNodes, links, current_id, pendingOps, onNodeChange, editorChanged,
                   modelChanged>>
    /\ EditorFrame

\* The start of NodeEditor::Render: deferredOps_ = pendingOps_;
\* pendingOps_.clear(); ProcessDeferredOps().  With no request pending
\* ProcessDeferredOps returns at once: the pending connections stay and
\* nothing is notified.
Render ==
    /\ IF pendingOps = <<>>
       THEN UNCHANGED <<editorNodes, links, current_id, pendingConnections, editorChanged>>
       ELSE /\ SetEditor(ProcessDeferredOps(Editor, pendingOps, pendingConnections))
            /\ editorChanged' = (editorChanged \/ PassNotifications(pendingOps, onNodeChange) > 0)
            /\ pendingConnections' = <<>>
    /\ pendingOps' = <<>>
    /\ lastCall' = "Render"
    /\ prevCall' = lastCall
    /\ UNCHANGED <<onNodeChange, modelChanged>>
    /\ EditorFrame

(***************************************************************************)
(* Bridge (class SyncManager, src/src/SyncManager.cpp).  Every operation   *)
(* runs on the main thread; the callbacks the Bridge installs set          *)
(* editorChanged_ / modelChanged_ and do nothing else.  SyncLoop,          *)
(* HandleEditorChanges and HandleModelChanges have no caller: StartSync    *)
(* starts no thread and no public operation reaches them.                  *)
(***************************************************************************)
\* std::stof on a value: it converts when the value starts with a number.
\* The characters are "1" (a digit), "." and "x" (anything else).
StofConverts(v) ==
    /\ v # <<>>
    /\ \/ v[1] = "1"
       \/ v[1] = "." /\ Len(v) >= 2 /\ v[2] = "1"

\* std::to_string of a float position: digits, a point, digits.
PositionParameters ==
    <<<<"position_x", <<"1", ".", "1">>>>, <<"position_y", <<"1", ".", "1">>>>>>

\* Pull's loop over the parameters of a model node runs through: every
\* position_x / position_y value converts (SyncManager.cpp:112-118).
PositionDecodes(node) ==
    \A i \in DOMAIN node.parameters :
        node.parameters[i][1] \in {"position_x", "position_y"}
            => StofConverts(node.parameters[i][2])

\* The index of the first model node whose position does not convert, 0 if none.
FirstUndecodable(ns) ==
    LET bad == {i \in DOMAIN ns : ~PositionDecodes(ns[i])}
    IN IF bad = {} THEN 0 ELSE CHOOSE i \in bad : \A j \in bad : i <= j

\* SyncManager::StartSync
StartSync ==
    /\ onNodeChange' = TRUE
    /\ onModelChange' = TRUE
    /\ lastCall' = "StartSync"
    /\ prevCall' = lastCall
    /\ UNCHANGED <<storeVars, schedVars, threadVars, events, notifyCount, runNo, runStopped,
                   prevCompleted, outsideRead, editorNodes, links, current_id, pendingOps,
                   pendingConnections, editorChanged, modelChanged>>

\* Push keeping whatever callback the store holds.
PushCallback_Kept(installed) == installed

\* The callback the store holds while Push rebuilds it:
\* model_->SetModelChangeCallback(nullptr).
PushCallback(installed) == FALSE

RECURSIVE PushRemoveNodes(_, _)
\* for (int id : nodeIds) model_->RemoveNode(id);
PushRemoveNodes(S, ids) ==
    IF ids = <<>> THEN S ELSE PushRemoveNodes(RemoveNodeOp(S, Head(ids)), Tail(ids))

RECURSIVE PushAddNodes(_, _)
\* One AddNode per editor node: id, name and boundUINodeId = the editor
\* node's id and name, no ports supplied, the position written by std::to_string.
PushAddNodes(S, ns) ==
    IF ns = <<>> THEN S
    ELSE PushAddNodes(AddNodeOp(S, WithParameters(
                                       WithBoundUINodeId(WithName(AINode(Head(ns).id, "Generic",
                                                                         <<>>, <<>>),
                                                                  Head(ns).name),
                                                         PushBinding(Head(ns).id)),
                                       PositionParameters)),
                      Tail(ns))

\* One AddConnection(start_node, end_node, start_attr, end_attr) of Push.
PushAddConnection(S, l) ==
    IF ConnectionResolves(S, l.start_node, l.end_node, l.start_attr, l.end_attr)
    THEN AddConnectionOp(S, CHOOSE e \in ConnectionEdges(S, l.start_node, l.end_node,
                                                         l.start_attr, l.end_attr) : TRUE)
    ELSE S

RECURSIVE PushAddConnections(_, _)
PushAddConnections(S, ls) ==
    IF ls = <<>> THEN S ELSE PushAddConnections(PushAddConnection(S, Head(ls)), Tail(ls))

\* The store after the RemoveNode and AddNode loops of Push.
PushNodes(S, ns) ==
    PushAddNodes(PushRemoveNodes(S, [i \in DOMAIN S.nodes |-> S.nodes[i].id]), ns)

\* The store Push leaves.
PushStore(S, ns, ls) == PushAddConnections(PushNodes(S, ns), ls)

\* The store operations of Push that end in "if (onModelChange_) onModelChange_()":
\* every RemoveNode and AddNode, and every AddConnection whose edge is added.
PushNotifySites(S, ns, ls) ==
    Len(S.nodes) + Len(ns) + (Len(PushStore(S, ns, ls).edges) - Len(PushNodes(S, ns).edges))

\* SyncManager::SyncEditorToModel
SyncEditorToModel ==
    /\ StoreCallable
    /\ SetStore(PushStore(Store, editorNodes, links))
    /\ notifyCount' = IF PushCallback(onModelChange)
                      THEN PushNotifySites(Store, editorNodes, links) ELSE 0
    /\ modelChanged' = (modelChanged \/ notifyCount' > 0)
    /\ onModelChange' = TRUE
    /\ editorChanged' = FALSE
    /\ outsideRead' = \E i \in DOMAIN links :
                          ReadsOutside(PushNodes(Store, editorNodes), links[i].start_node,
                                       links[i].end_node, links[i].start_attr, links[i].end_attr)
    /\ lastCall' = "SyncEditorToModel"
    /\ prevCall' = lastCall
    /\ UNCHANGED <<schedVars, threadVars, events, runNo, runStopped, prevCompleted, editorVars>>

RECURSIVE PullRemoveNodes(_, _, _)
\* for (const auto& node : editorNodes) editor_->RemoveNode(node.id);
PullRemoveNodes(ops, ns, by) ==
    IF ns = <<>> THEN ops ELSE PullRemoveNodes(QueueRemove(ops, Head(ns).id, by), Tail(ns), by)

RECURSIVE PullAddNodes(_, _, _)
\* editor_->AddNode(modelNode.name, posX, posY, modelNode.id) per model node.
\* The position is not part of a request here: two pulled requests are
\* identical when they carry the same name and are bound to the same model
\* node.
PullAddNodes(ops, ns, by) ==
    IF ns = <<>> THEN ops
    ELSE PullAddNodes(QueueAdd(ops, Head(ns).name, Head(ns).id, by), Tail(ns), by)

RECURSIVE PullConnections(_, _)
\* One QueueConnectionForSync per edge whose two ports GetPort finds.
PullConnections(S, es) ==
    IF es = <<>> THEN <<>>
    ELSE LET e == Head(es)
         IN (IF HasPort(S, e.fromPortId) /\ HasPort(S, e.toPortId)
             THEN <<PendingConnection(GetPort(S, e.fromPortId).nodeId,
                                      GetPort(S, e.toPortId).nodeId)>>
             ELSE <<>>) \o PullConnections(S, Tail(es))

\* SyncManager::SyncModelToEditor.  When std::stof throws on a model node,
\* the exception leaves the function there (nothing catches it, the lock
\* guard releases mutex_): the requests queued so far stay queued and the
\* rest of the function is not run.  The caller goes on.
SyncModelToEditor ==
    /\ LET k == FirstUndecodable(nodes)
           removes == PullRemoveNodes(pendingOps, editorNodes, "pull")
       IN IF k = 0
          THEN /\ pendingOps' = PullAddNodes(removes, nodes, "pull")
               /\ pendingConnections' = pendingConnections \o PullConnections(Store, edges)
               /\ onNodeChange' = TRUE
               /\ modelChanged' = FALSE
          ELSE /\ pendingOps' = PullAddNodes(removes, SubSeq(nodes, 1, k - 1), "pull")
               /\ onNodeChange' = FALSE
               /\ UNCHANGED <<pendingConnections, modelChanged>>
    /\ lastCall' = "SyncModelToEditor"
    /\ prevCall' = lastCall
    /\ UNCHANGED <<editorNodes, links, current_id, editorChanged>>
    /\ EditorFrame

(***************************************************************************)
(* SpecSync: the Interaction Store, the Graph Store and the Bridge on the  *)
(* main thread, from the state the three constructors leave                *)
(* (main.cpp:27-41).  The user queues node Adds and Removes and edits      *)
(* links through the handlers of Render, the Graph Store is edited         *)
(* directly, and StartSync, SyncEditorToModel and SyncModelToEditor are    *)
(* called as the public operations they are.  The scheduler is idle.       *)
(***************************************************************************)
\* The names of the "Add ..." menu items (NodeEditor.cpp:181-187), two of three.
NodeNames == {"Convolution Layer", "Max Pooling"}

ModelIdInputs == 1..MaxModelId

\* A model node comes without parameters or with a position that is no number.
ParameterInputs == {<<>>, <<<<"position_x", <<"x">>>>>>}

StepAllowed == edits < MaxBridgeSteps

InitSync ==
    /\ nodes = <<>>
    /\ edges = <<>>
    /\ allPorts = <<>>
    /\ portIndex = EmptyMap
    /\ nextPortId = FirstPortId
    /\ nextEdgeId = FirstEdgeId
    /\ onModelChange = FALSE
    /\ SchedulerConstructed
    /\ EditorConstructed
    /\ BridgeConstructed

\* A menu item of the "AddNodePopup" is picked.
UserAddNode ==
    /\ StepAllowed
    /\ \E name \in NodeNames : EditorAddNode(name, -1)
    /\ edits' = edits + 1

\* The Delete key on a selected node.
UserRemoveNode ==
    /\ StepAllowed
    /\ \E i \in DOMAIN editorNodes : EditorRemoveNode(editorNodes[i].id)
    /\ edits' = edits + 1

\* A link is drawn from the output slot of one node to the input slot of another.
UserAddLink ==
    /\ StepAllowed
    /\ \E i, j \in DOMAIN editorNodes :
          /\ i # j
          /\ EditorAddLink(editorNodes[i].id, editorNodes[j].id,
                           editorNodes[i].outputs[1], editorNodes[j].inputs[1])
    /\ edits' = edits + 1

\* A link is destroyed or deleted.
UserRemoveLink ==
    /\ StepAllowed
    /\ \E i \in DOMAIN links : EditorRemoveLink(links[i].id)
    /\ edits' = edits + 1

\* One iteration of the main loop (main.cpp:71-96) reaches Render.
Pass ==
    /\ Render
    /\ UNCHANGED edits

CallStartSync ==
    /\ StepAllowed
    /\ StartSync
    /\ edits' = edits + 1

Push ==
    /\ StepAllowed
    /\ SyncEditorToModel
    /\ edits' = edits + 1

Pull ==
    /\ StepAllowed
    /\ SyncModelToEditor
    /\ edits' = edits + 1

\* A store operation called with the Bridge's callback possibly installed:
\* the callback sets modelChanged_ (SyncManager.cpp:25-28, 80-83).
BridgeNotified ==
    /\ modelChanged' = (modelChanged \/ notifyCount' > 0)
    /\ prevCall' = lastCall
    /\ UNCHANGED <<editorVars, editorChanged>>

\* The Graph Store gets a node under an id it does not hold, without ports.
ModelAddNode ==
    /\ StepAllowed
    /\ \E id \in ModelIdInputs \ NodeIdsHeld, ps \in ParameterInputs :
          AddNode(WithParameters(AINode(id, "Generic", <<>>, <<>>), ps))
    /\ BridgeNotified
    /\ edits' = edits + 1

ModelRemoveNode ==
    /\ StepAllowed
    /\ \E id \in NodeIdsHeld : RemoveNode(id)
    /\ BridgeNotified
    /\ edits' = edits + 1

ModelAddConnection ==
    /\ StepAllowed
    /\ \E u, v \in NodeIdsHeld : u # v /\ AddConnection(u, v, 0, 0)
    /\ BridgeNotified
    /\ edits' = edits + 1

NextSync ==
    \/ UserAddNode
    \/ UserRemoveNode
    \/ UserAddLink
    \/ UserRemoveLink
    \/ Pass
    \/ CallStartSync
    \/ Push
    \/ Pull
    \/ ModelAddNode
    \/ ModelRemoveNode
    \/ ModelAddConnection

SpecSync == InitSync /\ [][NextSync]_vars

\* The main loop keeps calling Render until the window closes; nothing in
\* the program calls the two sync operations on its own.
FairSync == SpecSync /\ WF_vars(Pass)

(***************************************************************************)
(* Claims on the Interaction Store and the Bridge (SpecSync).              *)
(***************************************************************************)
EditorNodeIds == {editorNodes[i].id : i \in DOMAIN editorNodes}

\* The node ids the pending REMOVE requests name, and the number of pending ADDs.
PendingRemoveIds == {pendingOps[i].nodeId : i \in {j \in DOMAIN pendingOps :
                                                       pendingOps[j].type = "REMOVE"}}

PendingAdds == Cardinality({i \in DOMAIN pendingOps : pendingOps[i].type = "ADD"})

\* A request was only recorded: nothing but the pending list moved, and the
\* list grew by at most the one request, at its end.
OnlyQueued ==
    /\ UNCHANGED <<editorNodes, links, current_id, pendingConnections, onNodeChange,
                   editorChanged, modelChanged>>
    /\ \/ pendingOps' = pendingOps
       \/ /\ Len(pendingOps') = Len(pendingOps) + 1
          /\ SubSeq(pendingOps', 1, Len(pendingOps)) = pendingOps

\* The pass applied exactly the requests that were pending: the nodes named
\* by a REMOVE are gone together with their links, every other node is kept
\* as it was, one new node with fresh slots stands for every ADD, and the
\* pending list is empty.
DrainedOnce ==
    /\ pendingOps' = <<>>
    /\ LET ids == EditorNodeIds
           ids2 == {editorNodes'[i].id : i \in DOMAIN editorNodes'}
       IN /\ ids2 \cap ids = ids \ PendingRemoveIds
          /\ Cardinality(ids2 \ ids) = PendingAdds
          /\ \A i \in DOMAIN editorNodes' :
                \/ \E j \in DOMAIN editorNodes : editorNodes[j] = editorNodes'[i]
                \/ /\ editorNodes'[i].id >= current_id
                   /\ Len(editorNodes'[i].inputs) = 1
                   /\ Len(editorNodes'[i].outputs) = 1
          /\ \A i \in DOMAIN links' :
                /\ links'[i].start_node \notin PendingRemoveIds
                /\ links'[i].end_node \notin PendingRemoveIds
    /\ (pendingOps = <<>>) => UNCHANGED <<editorNodes, links, current_id, editorChanged>>

\* C16: a node Add or Remove request on the Interaction Store is only
\* recorded in the pending list (node set, link set and change notification
\* stay as they are), and the next pass empties the list once and applies
\* exactly the requests that were pending at that point.
C16_RequestsDeferredToNextPass ==
    [][/\ lastCall' \in {"NodeEditor::AddNode", "NodeEditor::RemoveNode"} => OnlyQueued
       /\ lastCall' = "Render" => DrainedOnce]_vars

\* Add requests were queued and the passes since have applied them: two nodes stand.
C16_Witness ==
    /\ lastCall = "Render"
    /\ prevCall = "NodeEditor::AddNode"
    /\ Len(editorNodes) = 2
    /\ current_id = 6
    /\ pendingOps = <<>>

\* The model id a node of the rebuilt editor stands for (-1: none).
BoundOf(ns, id) ==
    IF \E i \in DOMAIN ns : ns[i].id = id THEN UINodeById(ns, id).boundAINodeId ELSE -1

\* The pairs of nodes the links join.
Connectivity(ls) == {<<ls[i].start_node, ls[i].end_node>> : i \in DOMAIN ls}

\* A Push has just been followed by a Pull, nothing was pending when they
\* were called, and the next pass is about to materialize what Pull queued.
RoundTripPending ==
    /\ prevCall = "SyncEditorToModel"
    /\ lastCall = "SyncModelToEditor"
    /\ pendingOps = PullAddNodes(PullRemoveNodes(<<>>, editorNodes, "pull"), nodes, "pull")
    /\ pendingConnections = PullConnections(Store, edges)

\* The editor after the pass is the editor before the Push up to ids: as
\* many nodes, one input and one output slot each, a new node standing for
\* every old one (bound to its id), and the same pairs of nodes linked.
RoundTripPreserved ==
    /\ Len(editorNodes') = Len(editorNodes)
    /\ \A i \in DOMAIN editorNodes' :
          /\ Len(editorNodes'[i].inputs) = 1
          /\ Len(editorNodes'[i].outputs) = 1
    /\ {editorNodes'[i].boundAINodeId : i \in DOMAIN editorNodes'} = EditorNodeIds
    /\ {<<BoundOf(editorNodes', p[1]), BoundOf(editorNodes', p[2])>> :
            p \in Connectivity(links')} = Connectivity(links)

\* C17: Push followed by Pull and the next pass gives the Interaction Store
\* the same number of nodes, one input and one output slot per node, and
\* the same links between corresponding nodes as before the Push.
C17_RoundTripPreserved ==
    [][(RoundTripPending /\ lastCall' = "Render") => RoundTripPreserved]_vars

\* C18: once a store has raised its change notification to the Bridge
\* (modelChanged_ / editorChanged_ set by the installed callback), the
\* Bridge eventually rebuilds the other store: a Graph Store change is
\* eventually followed by a Pull, an Interaction Store change by a Push.
C18_ChangeLeadsToSync ==
    /\ modelChanged ~> (lastCall = "SyncModelToEditor")
    /\ editorChanged ~> (lastCall = "SyncEditorToModel")

\* Everything pending was queued by SyncModelToEditor.
OnlyPullPending ==
    /\ pendingOps # <<>>
    /\ \A i \in DOMAIN pendingOps : pendingOps[i].by = "pull"

\* C19: the mutations a Pull performs on the Interaction Store do not raise
\* the Interaction Store's change notification to the Bridge: neither the
\* Pull itself nor the pass that materializes only requests queued by Pull
\* sets editorChanged_.
C19_PullNeverSetsEditorChanged ==
    [][/\ lastCall' = "SyncModelToEditor" => (editorChanged' = editorChanged)
       /\ (OnlyPullPending /\ lastCall' = "Render") => (editorChanged' = editorChanged)]_vars

\* C20: during a Push the Graph Store's change callback is never invoked
\* (no RemoveNode, AddNode or AddConnection of the rebuild sets
\* modelChanged_), and the callback is installed when Push returns.
C20_PushNeverNotifies ==
    [][lastCall' = "SyncEditorToModel" =>
          /\ notifyCount' = 0
          /\ modelChanged' = modelChanged
          /\ onModelChange']_vars

\* A Push with the Bridge's callback installed by StartSync just before has
\* replaced a model node by the two editor nodes.
C20_Witness ==
    /\ lastCall = "SyncEditorToModel"
    /\ prevCall = "StartSync"
    /\ Len(nodes) = 2
    /\ nextPortId = FirstPortId + 6
    /\ onModelChange

\* C21: callback suppression is error-safe: when Push or Pull is left
\* part-way by a failure, the callback it had suspended is installed again
\* on that exit path as on the normal one.
C21_CallbackRestoredOnEveryExit ==
    [][/\ (lastCall' = "SyncModelToEditor" /\ onNodeChange) => onNodeChange'
       /\ (lastCall' = "SyncEditorToModel" /\ onModelChange) => onModelChange']_vars

\* C22: no infinite feedback loop: once the edits have stopped, only
\* finitely many syncs follow and from some point on both change flags
\* stay false.
C22_FlagsSettle == <>[](~editorChanged /\ ~modelChanged)

(***************************************************************************)
(* Claims on the scheduler and the store, continued.                       *)
(***************************************************************************)
\* C23: a scheduler run never mutates the Graph Store: every step of
\* StartExecution, StopExecution and the workers leaves the node list, the
\* edge list, the port list and the port index (and the two id counters)
\* as they are; only the store operations the main thread calls between
\* runs change them.
C23_SchedulerLeavesStoreAlone ==
    [][(edits' = edits) => UNCHANGED storeVars]_vars

\* A first run on a full graph has completed every node; no edit was made.
C23_Witness ==
    /\ runNo = 1
    /\ edits = 0
    /\ ~executing
    /\ Len(nodes) = MaxNodes
    /\ Len(edges) = MaxEdges
    /\ CompletedTotal = MaxNodes

(***************************************************************************)
(* RemoveNode called by the main thread while a run's worker threads       *)
(* exist.  RemoveNode takes no lock (AIModel.cpp:238-262) and the workers    *)
(* read nodes_ in ExecuteNode and ReportProgress without one, so the erase *)
(* has a beginning and an end between which a worker may read.             *)
(***************************************************************************)
\* SpecRemoval runs on graphs of at most MaxRemovalNodes nodes.
MaxRemovalNodes == 2

\* The call is entered: the erase of nodes_ is under way.
RemoveNodeBegin(nodeId) ==
    /\ mainPc = "idle"
    /\ workerThreads # {}
    /\ edits < MaxEdits
    /\ mainPc' = "remove"
    /\ startArg' = nodeId
    /\ edits' = edits + 1
    /\ lastCall' = "RemoveNode"
    /\ racyReads' = 0
    /\ UNCHANGED <<storeVars, onModelChange, schedVars, wpc, wnode, wstep, wtype, events,
                   notifyCount, runNo, runStopped, prevCompleted, outsideRead,
                   editorVars, bridgeVars>>

\* The call returns: the node, its ports and its edges are gone and the
\* notification is delivered.
RemoveNodeEnd ==
    /\ mainPc = "remove"
    /\ SetStore(RemoveNodeOp(Store, startArg))
    /\ Notify
    /\ mainPc' = "idle"
    /\ UNCHANGED <<onModelChange, schedVars, startArg, wpc, wnode, wstep, wtype, racyReads, events,
                   lastCall, runNo, runStopped, prevCompleted, outsideRead, edits,
                   editorVars, bridgeVars>>

InitRemoval ==
    /\ Init
    /\ Len(nodes) <= MaxRemovalNodes

NextRemoval ==
    \/ \E n \in 1..MaxThreads : runNo = 0 /\ StartExecution(n)
    \/ \E w \in Workers : WorkerStep(w)
    \/ \E id \in NodeIdsHeld : RemoveNodeBegin(id)
    \/ RemoveNodeEnd

SpecRemoval == InitRemoval /\ [][NextRemoval]_vars

\* The names an event of node n may carry when it is delivered: the name
\* of the node the store holds under the id, "Unknown" when it holds none;
\* either of the two for the node a RemoveNode under way is removing.
NamesAtDelivery(n) ==
    IF Racing /\ n = startArg
    THEN {"Unknown", NodeName(Store, n)}
    ELSE {NodeName(Store, n)}

\* The events of node n after the step.
EventsAfter(n) == IF n \in DOMAIN events' THEN events'[n] ELSE <<>>

\* C24: every progress event delivered for a node id the store no longer
\* holds at delivery time carries the name "Unknown", and every event for a
\* node the store holds carries that node's name.
C24_EventsCarryNodeName ==
    [][\A n \in 1..MaxNodes :
          Len(EventsAfter(n)) > Len(EventsOf(n)) =>
              EventsAfter(n)[Len(EventsAfter(n))][3] \in NamesAtDelivery(n)]_vars

(***************************************************************************)
(* Notifications per Graph Store call.                                     *)
(***************************************************************************)
\* The call of the step added an edge (AddEdge, AddConnection), a node (AddNode).
EdgeAdded == Len(edges') = Len(edges) + 1
NodeAdded == Len(nodes') = Len(nodes) + 1

\* C25: a Graph Store operation invokes the change-notification callback at
\* most once per call; RemoveNode invokes it exactly once, after its
\* cascade; an AddNode, AddEdge or AddConnection that added its node or
\* edge invokes it exactly once; no operation invokes it while no callback
\* is set.
C25_AtMostOneNotificationPerCall ==
    [][/\ notifyCount' <= 1
       /\ ~onModelChange => notifyCount' = 0
       /\ (onModelChange /\ lastCall' = "RemoveNode") => notifyCount' = 1
       /\ (onModelChange /\ lastCall' = "AddNode" /\ NodeAdded) => notifyCount' = 1
       /\ (onModelChange /\ lastCall' \in {"AddEdge", "AddConnection"} /\ EdgeAdded)
             => notifyCount' = 1]_vars

\* RemoveNode has just returned with a callback set and one notification
\* delivered, leaving a node but none of the edges that were allocated:
\* its cascade erased every edge the store held.
C25_Witness ==
    /\ lastCall = "RemoveNode"
    /\ onModelChange
    /\ notifyCount = 1
    /\ Len(nodes) >= 1
    /\ edges = <<>>
    /\ nextEdgeId > FirstEdgeId

(***************************************************************************)
(* A new run over threads of the previous one.                             *)
(***************************************************************************)
\* No thread of a run is inside ExecutionLoop.
NoWorkerRunning == \A x \in Workers : wpc[x] \in {"none", "done"}

\* StartExecution goes past its join loop in this step: it builds the state
\* of a new run, or returns because executing_ is set.
PastJoinLoop ==
    \/ runNo' # runNo
    \/ mainPc = "start_join" /\ mainPc' = "idle"

\* C26: StartExecution called with threads of a previous run not joined
\* joins every one of them before it builds the new run's state: when the
\* ready queue, adjacency, indegree and remaining counter are rebuilt no
\* thread of the old run is inside ExecutionLoop, so threads of two runs
\* never exist together.
C26_JoinsBeforeRebuild == [][PastJoinLoop => NoWorkerRunning]_vars

\* StartExecution was called during the first run and is in its join loop
\* while a thread of that run is still inside ExecutionLoop.
C26_Witness ==
    /\ mainPc = "start_join"
    /\ runNo = 1
    /\ workerThreads # {}
    /\ ~NoWorkerRunning

\* The store holds an edge from an output port of node u to an input port
\* of node v.
EdgeJoins(S, u, v) ==
    \E i \in DOMAIN S.edges :
        /\ HasPort(S, S.edges[i].fromPortId)
        /\ HasPort(S, S.edges[i].toPortId)
        /\ GetPort(S, S.edges[i].fromPortId).nodeId = u
        /\ ~GetPort(S, S.edges[i].fromPortId).isInput
        /\ GetPort(S, S.edges[i].toPortId).nodeId = v
        /\ GetPort(S, S.edges[i].toPortId).isInput

\* C27: Push re-creates one Graph Store edge for every interaction link
\* whose two end nodes exist: after Push the Graph Store holds an edge from
\* an output port of the node created for the link's start node to an
\* input port of the node created for its end node.
C27_PushRecreatesEdges ==
    [][lastCall' = "SyncEditorToModel" =>
          \A i \in DOMAIN links :
              (links[i].start_node \in EditorNodeIds /\ links[i].end_node \in EditorNodeIds)
                  => EdgeJoins(Store', links[i].start_node, links[i].end_node)]_vars

(***************************************************************************)
(* One Pull and the pass after it.                                         *)
(***************************************************************************)
\* What one SyncModelToEditor leaves pending when nothing was pending at
\* its call: every request it queued, up to the node it failed on.
SinglePullOps ==
    LET k == FirstUndecodable(nodes)
        removes == PullRemoveNodes(<<>>, editorNodes, "pull")
    IN PullAddNodes(removes, IF k = 0 THEN nodes ELSE SubSeq(nodes, 1, k - 1), "pull")

SinglePullConnections ==
    IF FirstUndecodable(nodes) = 0 THEN PullConnections(Store, edges) ELSE <<>>

\* A single Pull was called with nothing pending and the next pass is
\* about to run.
SinglePullPending ==
    /\ lastCall = "SyncModelToEditor"
    /\ pendingOps = SinglePullOps
    /\ pendingConnections = SinglePullConnections

\* The edges of the Graph Store from node u to node v.
EdgesJoining(S, u, v) ==
    {i \in DOMAIN S.edges :
        /\ HasPort(S, S.edges[i].fromPortId)
        /\ HasPort(S, S.edges[i].toPortId)
        /\ GetPort(S, S.edges[i].fromPortId).nodeId = u
        /\ GetPort(S, S.edges[i].toPortId).nodeId = v}

\* The editor nodes bound to model node n.
BoundTo(ns, n) == {i \in DOMAIN ns : ns[i].boundAINodeId = n}

\* The links from the output slot of a node bound to u to the input slot
\* of a node bound to v.
LinksJoining(ns, ls, u, v) ==
    {i \in DOMAIN ls :
        \E a \in BoundTo(ns, u), b \in BoundTo(ns, v) :
            /\ ls[i].start_node = ns[a].id
            /\ ls[i].end_node = ns[b].id
            /\ ns[a].outputs # <<>> /\ ls[i].start_attr = ns[a].outputs[1]
            /\ ns[b].inputs # <<>> /\ ls[i].end_attr = ns[b].inputs[1]}

\* The Interaction Store after the pass mirrors the Graph Store: one node
\* per model node, bound to it, none of the nodes it held before, and one
\* link per edge between the nodes bound to the edge's end nodes.
MirrorsGraphStore ==
    /\ Len(editorNodes') = Len(nodes)
    /\ \A n \in NodeIdsHeld : Cardinality(BoundTo(editorNodes', n)) = 1
    /\ \A i \in DOMAIN editorNodes' : editorNodes'[i].id \notin EditorNodeIds
    /\ Len(links') = Len(edges)
    /\ \A u, v \in NodeIdsHeld :
          Cardinality(LinksJoining(editorNodes', links', u, v))
              = Cardinality(EdgesJoining(Store, u, v))

\* C28: after a single Pull followed by the next pass, the Interaction
\* Store holds exactly one node per Graph Store node, bound to that node's
\* id, no interaction node that existed before the Pull, and for every
\* Graph Store edge from u to v one link from the output slot of the node
\* bound to u to the input slot of the node bound to v.
C28_PullMirrorsGraphStore ==
    [][(SinglePullPending /\ lastCall' = "Render") => MirrorsGraphStore]_vars

\* The same for a Pull that returned (std::stof threw on no node).
PullReturnedMirrors ==
    [][(SinglePullPending /\ FirstUndecodable(nodes) = 0 /\ lastCall' = "Render")
          => MirrorsGraphStore]_vars

\* Pull has just been called twice in a row, the first time with no
\* request pending, and the next pass is about to run.
RepeatedPullPending ==
    /\ prevCall = "SyncModelToEditor"
    /\ lastCall = "SyncModelToEditor"
    /\ pendingOps = SinglePullOps

\* The editor the pass would leave had Pull been called once.
AfterSinglePull == ProcessDeferredOps(Editor, SinglePullOps, SinglePullConnections)

\* C29: Pull is idempotent: after Pull was performed two or more times on
\* an unchanged Graph Store, the next pass leaves the same number of
\* interaction nodes, the same number of links and the same connectivity
\* as after a single Pull.
C29_PullIdempotent ==
    [][(RepeatedPullPending /\ lastCall' = "Render") =>
          /\ Len(editorNodes') = Len(AfterSinglePull.nodes)
          /\ Len(links') = Len(AfterSinglePull.links)
          /\ Connectivity(links') = Connectivity(AfterSinglePull.links)]_vars

\* C30: the pass applying a deferred Remove of an interaction node erases
\* every link that starts or ends at the node together with it: after any
\* sequence of passes no link created by the user or by the replay of a
\* pulled connection refers to a node the Interaction Store no longer holds.
C30_NoLinkToMissingNode ==
    \A i \in DOMAIN links :
        /\ links[i].start_node \in EditorNodeIds
        /\ links[i].end_node \in EditorNodeIds

\* The pass has just applied a RemoveNode request: one node is left, no
\* link is, and ids were allocated for two nodes and a link between them.
C30_Witness ==
    /\ lastCall = "Render"
    /\ prevCall = "NodeEditor::RemoveNode"
    /\ Len(editorNodes) = 1
    /\ links = <<>>
    /\ current_id >= 7

(***************************************************************************)
(* Coalescing of identical Add requests.                                   *)
(***************************************************************************)
\* The pending ADD requests.
PendingAddIndexes(ops) == {i \in DOMAIN ops : ops[i].type = "ADD"}

\* No two pending ADD requests have the same content.
NoIdenticalAdds(ops) ==
    \A i, j \in PendingAddIndexes(ops) :
        (ops[i].name = ops[j].name /\ ops[i].boundAINodeId = ops[j].boundAINodeId) => i = j

\* The nodes the pass of this step created.
CreatedByPass == {i \in DOMAIN editorNodes' : editorNodes'[i].id >= current_id}

\* C31: identical Add requests queued in one pending window are coalesced,
\* so the next pass materializes one node for them; a request is dropped
\* only against a pending request, never against a node that stands, so
\* identical requests of different windows each materialize a node.
C31_IdenticalAddsCoalesced ==
    [][/\ NoIdenticalAdds(pendingOps')
       /\ lastCall' = "Render" =>
             Cardinality(CreatedByPass) = Cardinality(PendingAddIndexes(pendingOps))
       /\ (lastCall' = "NodeEditor::AddNode" /\ pendingOps = <<>>) => Len(pendingOps') = 1]_vars

\* AddNode was called twice in a row for the content of a node that stands
\* since an earlier pass: one request is pending.
C31_Witness ==
    /\ prevCall = "NodeEditor::AddNode"
    /\ lastCall = "NodeEditor::AddNode"
    /\ Len(pendingOps) = 1
    /\ \E i \in DOMAIN editorNodes :
          /\ editorNodes[i].name = pendingOps[1].name
          /\ editorNodes[i].boundAINodeId = pendingOps[1].boundAINodeId

(***************************************************************************)
(* The Interaction Store alone, with NodeEditor::RemoveNode called for any *)
(* id (the operation is public and takes the id as given).                 *)
(***************************************************************************)
\* NodeEditor::RemoveNode(nodeId) for an id the store holds or does not.
ApiRemoveNode ==
    /\ StepAllowed
    /\ \E id \in 0..current_id : EditorRemoveNode(id)
    /\ edits' = edits + 1

\* NodeEditor::AddNode for a node bound to a model node, as Pull calls it.
ApiAddNode ==
    /\ StepAllowed
    /\ \E bound \in ModelIdInputs : EditorAddNode("", bound)
    /\ edits' = edits + 1

\* NodeEditor::QueueConnectionForSync for any two model node ids.
ApiQueueConnection ==
    /\ StepAllowed
    /\ Len(pendingConnections) < MaxPendingConnections
    /\ \E u, v \in ModelIdInputs : EditorQueueConnection(u, v)
    /\ edits' = edits + 1

EditorStepAllowed == edits < MaxEditorSteps

NextEditor ==
    \/ EditorStepAllowed /\ UserAddNode
    \/ EditorStepAllowed /\ ApiAddNode
    \/ EditorStepAllowed /\ ApiQueueConnection
    \/ EditorStepAllowed /\ ApiRemoveNode
    \/ EditorStepAllowed /\ UserAddLink
    \/ EditorStepAllowed /\ UserRemoveLink
    \/ Pass
    \/ EditorStepAllowed /\ CallStartSync

SpecEditor == InitSync /\ [][NextEditor]_vars

\* The pass of this step changed the node set or the link set.
PassChanged == editorNodes' # editorNodes \/ links' # links

\* C32: at the start of a pass the Interaction Store fires its change
\* notification exactly once if applying the deferred operations and the
\* pending link requests changed its node or link set, does not fire it in
\* a pass in which nothing changed, and never fires it twice in a pass
\* (a callback being set).
C32_PassNotifiesOnChange ==
    [][(lastCall' = "Render" /\ onNodeChange) =>
          /\ PassNotifications(pendingOps, onNodeChange) <= 1
          /\ PassNotifications(pendingOps, onNodeChange) = 1 <=> PassChanged
          /\ ~editorChanged => (editorChanged' <=> PassChanged)]_vars

\* The model id resolves to a node of ns (aiToUiNodeMap holds it).
Resolves(ns, id) == id # -1 /\ \E i \in DOMAIN ns : ns[i].boundAINodeId = id

\* The links the pass of this step created.
LinksCreatedByPass == {i \in DOMAIN links' : links'[i].id >= current_id}

\* The pending requests whose two ends resolve after the requests of the
\* pass were applied.
ResolvedRequests ==
    {k \in DOMAIN pendingConnections :
        /\ Resolves(editorNodes', pendingConnections[k].fromAiNodeId)
        /\ Resolves(editorNodes', pendingConnections[k].toAiNodeId)}

\* C33: when the pending cross-store link requests are replayed in a pass,
\* a link is created only for a request whose source and destination both
\* resolve to a node present after the deferred Adds and Removes of the
\* pass; an unresolved request is skipped and the rest is still processed
\* (one link per resolved request); every replayed request is discarded.
C33_ReplayResolvesOrSkips ==
    [][(lastCall' = "Render" /\ pendingOps # <<>>) =>
          /\ Cardinality(LinksCreatedByPass) = Cardinality(ResolvedRequests)
          /\ \A i \in LinksCreatedByPass :
                \E k \in ResolvedRequests :
                    /\ BoundOf(editorNodes', links'[i].start_node)
                          = pendingConnections[k].fromAiNodeId
                    /\ BoundOf(editorNodes', links'[i].end_node)
                          = pendingConnections[k].toAiNodeId
          /\ pendingConnections' = <<>>]_vars

\* A pass has replayed a link request queued just before it and skipped
\* it: one node stands, three ids were allocated (the node and its two
\* slots), so no link was ever created, and no request is pending.
C33_Witness ==
    /\ lastCall = "Render"
    /\ prevCall = "NodeEditor::QueueConnectionForSync"
    /\ Len(editorNodes) = 1
    /\ editorNodes[1].boundAINodeId # -1
    /\ links = <<>>
    /\ current_id = 3
    /\ pendingConnections = <<>>

\* C34: in every state reachable through AddEdge, AddConnection,
\* RemoveEdge, RemoveNode and LoadFromFile no two edges of the Graph Store
\* share an id, edges added with an id of the caller's included.
C34_EdgeIdsUnique ==
    \A i, j \in DOMAIN edges : edges[i].id = edges[j].id => i = j

(***************************************************************************)
(* One run left to itself: StartExecution with at least one worker, then   *)
(* only the workers take steps.                                            *)
(***************************************************************************)
NextRun ==
    \/ \E n \in 1..MaxThreads : runNo = 0 /\ StartExecution(n)
    \/ \E w \in Workers : WorkerStep(w)

SpecRun == Init /\ [][NextRun]_vars

\* A step the scheduler owes worker w: any step of ExecutionLoop but the
\* spurious wakeup, which a condition variable may deliver and need not.
WorkerProgress(w) ==
    \/ WLoop(w)
    \/ WLockPred(w)
    \/ WBlock(w)
    \/ WAfterWait(w)
    \/ WExecStart(w)
    \/ WExecStep(w)
    \/ WFinish(w)

\* Fair scheduling of the workers: a worker that can take a step again and
\* again (the mutex is free again and again) takes it.
FairRun == SpecRun /\ \A w \in Workers : SF_vars(WorkerProgress(w))

\* The run is over: executing_ is false and every worker has left its loop.
RunOver == ~executing /\ AllJoinable

\* C35: a run started by StartExecution with at least one worker on an
\* acyclic graph, the empty graph included, completes without a stop
\* request under fair scheduling of the workers: IsExecuting() becomes
\* false and every worker leaves its loop.
C35_RunCompletes == (UnstoppedRun /\ runNo = 1) ~> RunOver

\* The same for graphs that hold a node.
NonEmptyRunCompletes == (UnstoppedRun /\ runNo = 1 /\ nodes # <<>>) ~> RunOver

\* C36: after StopExecution returns IsExecuting() is false and no worker
\* thread exists, whatever StartExecution / StopExecution calls came before
\* and whatever worker count StartExecution was given, 0 included.
C36_StoppedAfterStop ==
    (lastCall = "StopExecution" /\ mainPc = "idle") => (~executing /\ workerThreads = {})

(***************************************************************************)
(* What a returned StopExecution leaves behind.                            *)
(***************************************************************************)
\* StopExecution was the last call made and it has returned.
StopReturned == lastCall = "StopExecution" /\ mainPc = "idle"

\* The status of the last event delivered for node n.
LastStatus(n) == EventsOf(n)[Len(EventsOf(n))][2]

\* A start event was delivered for node n and no "completed" event yet.
HalfExecuted(n) == EventsOf(n) # <<>> /\ LastStatus(n) # "completed"

Started == {n \in DOMAIN events : EventsOf(n) # <<>>}

\* C37: once StopExecution has returned no worker thread is held, every
\* node that delivered a start event has delivered "completed", and until
\* the next run begins no further progress event is delivered, so a node
\* that had not started is not executed in the stopped run.
C37_StopLeavesNoNodeHalfExecuted ==
    /\ [](StopReturned => (workerThreads = {} /\ \A n \in Started : ~HalfExecuted(n)))
    /\ [][(mainPc = "idle" /\ workerThreads = {} /\ runNo' = runNo) => events' = events]_vars

\* StopExecution cut a run short and has returned: one node ran to
\* completion, another node of the graph never started.
C37_Witness ==
    /\ StopReturned
    /\ runStopped
    /\ \E n \in Started : LastStatus(n) = "completed"
    /\ \E k \in DOMAIN nodes : EventsOf(nodes[k].id) = <<>>

(***************************************************************************)
(* The binding between the two stores that Push leaves.                    *)
(***************************************************************************)
\* Graph Store node n is bound to an interaction node that exists.
BoundUINodeExists(n) == n.boundUINodeId \in EditorNodeIds

\* The interaction node that Graph Store node n is bound to is bound back
\* to n.
BoundBack(n) == UINodeById(editorNodes, n.boundUINodeId).boundAINodeId = n.id

\* Push has just returned.
PushReturned == lastCall = "SyncEditorToModel"

\* Half of C38: every node Push created names an interaction node held.
PushBindsToHeldUINode ==
    PushReturned => \A k \in DOMAIN nodes : BoundUINodeExists(nodes[k])

\* C38: after a Push every Graph Store node's boundUINodeId names an
\* interaction node that exists, and that interaction node's boundAINodeId
\* is the id of the Graph Store node.
C38_PushBindsBothWays ==
    PushReturned =>
        \A k \in DOMAIN nodes : BoundUINodeExists(nodes[k]) /\ BoundBack(nodes[k])

(***************************************************************************)
(* The scheduler's counters and its ready queue during a run.              *)
(***************************************************************************)
\* How many times id is in the ready queue.
QueuedCount(q, id) == Cardinality({i \in DOMAIN q : q[i] = id})

\* The ids in the ready queue.
Queued == {readyQueue[i] : i \in DOMAIN readyQueue}

\* The workers that have popped id and not yet done the bookkeeping for it.
Holding(id) == {w \in workerThreads : wnode[w] = id /\ wpc[w] \in {"exec", "step", "finish"}}

\* id was not pushed in this run so far: it is not queued, no worker holds
\* it and no event of it was delivered.
NotYetPushed(id) == id \notin Queued /\ Holding(id) = {} /\ EventsOf(id) = <<>>

\* The ids a step pushes onto the ready queue of the run under way.
PushedByStep == {id \in DOMAIN indegree : QueuedCount(readyQueue', id) > QueuedCount(readyQueue, id)}

\* The nodes with an edge into id in the graph the run was started on.
PredecessorsOf(id) ==
    {u \in DOMAIN adjacency : \E i \in DOMAIN adjacency[u] : adjacency[u][i] = id}

\* Every node with an edge into id has delivered its "completed" event.
PredecessorsFinished(id) == \A u \in PredecessorsOf(id) : CompletedCount(u) >= 1

\* C39: no indegree count is negative, the remaining-node counter is never
\* below zero, a node id is in the ready queue only once every node with an
\* edge into it (in the graph the run was started on) has finished, and no node id is pushed onto the ready queue
\* twice in a run: the queue StartExecution seeds holds no id twice, and a
\* worker pushes an id once and only if it was not pushed before.
C39_SchedulerCountersSound ==
    /\ [](/\ \A id \in DOMAIN indegree : indegree[id] >= 0
          /\ remainingNodes >= 0
          /\ \A id \in Queued : QueuedCount(readyQueue, id) = 1 /\ PredecessorsFinished(id))
    /\ [][runNo' = runNo =>
             \A id \in PushedByStep : NotYetPushed(id) /\ QueuedCount(readyQueue', id) = 1]_vars

\* Two workers run three nodes: node 3, which has edges from nodes 1 and 2,
\* was pushed by a worker after both finished and is the one node left.
C39_Witness ==
    /\ executing
    /\ numThreads = 2
    /\ PredecessorsOf(3) = {1, 2}
    /\ 3 \in Queued
    /\ indegree[3] = 0
    /\ remainingNodes = 1

=============================================================================
